---- MODULE Spec2Model ----
(***************************************************************************)
(* Security event aggregator: the ingest service (normalise, store,        *)
(* publish), the keyed event store, the message queue and the event        *)
(* processor (poll loop, correlator, risk scorer, alerting).                *)
(*                                                                         *)
(* Python values are represented as follows.  A dict is a record; a key    *)
(* that may be missing is carried by a "kind" field ("absent", "null",     *)
(* "map") or, for strings, by the sentinel None; an optional number is a   *)
(* sequence of length 0 or 1.  Instants are minutes on one clock.          *)
(***************************************************************************)
EXTENDS Integers, Sequences, FiniteSets, TLC

(***************************************************************************)
(* Bounds of the model.                                                    *)
(***************************************************************************)
MaxEvents == 2
MaxSharedEvents == 1
MaxMsgs == 3
MaxBatch == 2
MaxNow == 65
MaxLogins == 6
MaxChain == 3
MaxExtra == 1

(***************************************************************************)
(* Configuration of the services (environment defaults).                   *)
(***************************************************************************)
BATCH_SIZE == 10
CORRELATION_WINDOW_MINUTES == 60
ALERT_THRESHOLD_SEVERITY == "high"
ALERT_THRESHOLD_RISK_SCORE == 70

None == "None"

Procs == {"p1", "p2"}

(***************************************************************************)
(* Strings.  TLC treats a string as atomic, so the event names the model   *)
(* uses are spelled out as character sequences for startswith, substring   *)
(* and regular-expression tests.                                           *)
(***************************************************************************)
Chars(s) ==
    CASE s = "ConsoleLogin" -> <<"C","o","n","s","o","l","e","L","o","g","i","n">>
      [] s = "CreateAccessKey" -> <<"C","r","e","a","t","e","A","c","c","e","s","s","K","e","y">>
      [] s = "StopLogging" -> <<"S","t","o","p","L","o","g","g","i","n","g">>
      [] s = "DeleteTrail" -> <<"D","e","l","e","t","e","T","r","a","i","l">>
      [] s = "UpdateTrail" -> <<"U","p","d","a","t","e","T","r","a","i","l">>
      [] s = "ListUsers" -> <<"L","i","s","t","U","s","e","r","s">>
      [] s = "List" -> <<"L","i","s","t">>
      [] s = "Describe" -> <<"D","e","s","c","r","i","b","e">>
      [] s = "Get" -> <<"G","e","t">>
      [] s = "delete" -> <<"d","e","l","e","t","e">>
      [] s = "trail" -> <<"t","r","a","i","l">>
      [] s = "stop" -> <<"s","t","o","p">>
      [] s = "logging" -> <<"l","o","g","g","i","n","g">>
      [] s = "disable" -> <<"d","i","s","a","b","l","e">>
      [] s = "root" -> <<"r","o","o","t">>
      [] s = "Unknown" -> <<"U","n","k","n","o","w","n">>
      [] s = "CreateUser" -> <<"C","r","e","a","t","e","U","s","e","r">>
      [] s = "AttachUserPolicy" -> <<"A","t","t","a","c","h","U","s","e","r","P","o","l","i","c","y">>
      [] s = "AssumeRole" -> <<"A","s","s","u","m","e","R","o","l","e">>
      [] s = "PutBucketPolicy" -> <<"P","u","t","B","u","c","k","e","t","P","o","l","i","c","y">>
      [] s = "AuthorizeSecurityGroupIngress" -> <<"A","u","t","h","o","r","i","z","e","S","e","c","u","r","i","t","y","G","r","o","u","p","I","n","g","r","e","s","s">>
      [] s = "RunInstances" -> <<"R","u","n","I","n","s","t","a","n","c","e","s">>
      [] s = "TerminateInstances" -> <<"T","e","r","m","i","n","a","t","e","I","n","s","t","a","n","c","e","s">>
      [] s = "DisableKey" -> <<"D","i","s","a","b","l","e","K","e","y">>
      [] s = "ListRoles" -> <<"L","i","s","t","R","o","l","e","s">>
      [] s = "ListBuckets" -> <<"L","i","s","t","B","u","c","k","e","t","s">>
      [] s = "ListGroups" -> <<"L","i","s","t","G","r","o","u","p","s">>
      [] s = "ListPolicies" -> <<"L","i","s","t","P","o","l","i","c","i","e","s">>
      [] s = "DescribeInstances" -> <<"D","e","s","c","r","i","b","e","I","n","s","t","a","n","c","e","s">>
      [] s = "DescribeVolumes" -> <<"D","e","s","c","r","i","b","e","V","o","l","u","m","e","s">>
      [] s = "DescribeVpcs" -> <<"D","e","s","c","r","i","b","e","V","p","c","s">>
      [] s = "GetObject" -> <<"G","e","t","O","b","j","e","c","t">>
      [] s = "GetSecretValue" -> <<"G","e","t","S","e","c","r","e","t","V","a","l","u","e">>
      [] s = "GetPasswordData" -> <<"G","e","t","P","a","s","s","w","o","r","d","D","a","t","a">>
      [] s = "Create" -> <<"C","r","e","a","t","e">>
      [] s = "Delete" -> <<"D","e","l","e","t","e">>
      [] s = "Update" -> <<"U","p","d","a","t","e">>
      [] s = "Attach" -> <<"A","t","t","a","c","h">>
      [] s = "Detach" -> <<"D","e","t","a","c","h">>
      [] s = "Put" -> <<"P","u","t">>
      [] s = "Modify" -> <<"M","o","d","i","f","y">>
      [] s = "Terminate" -> <<"T","e","r","m","i","n","a","t","e">>
      [] s = "User" -> <<"U","s","e","r">>
      [] s = "Role" -> <<"R","o","l","e">>
      [] s = "Policy" -> <<"P","o","l","i","c","y">>
      [] s = "SecurityGroup" -> <<"S","e","c","u","r","i","t","y","G","r","o","u","p">>
      [] s = "Vpc" -> <<"V","p","c">>
      [] s = "Subnet" -> <<"S","u","b","n","e","t">>
      [] s = "Route" -> <<"R","o","u","t","e">>
      [] s = "NetworkAcl" -> <<"N","e","t","w","o","r","k","A","c","l">>
      [] OTHER -> <<>>

LowerChar(c) ==
    CASE c = "A" -> "a" [] c = "B" -> "b" [] c = "C" -> "c" [] c = "D" -> "d"
      [] c = "E" -> "e" [] c = "F" -> "f" [] c = "G" -> "g" [] c = "H" -> "h"
      [] c = "I" -> "i" [] c = "J" -> "j" [] c = "K" -> "k" [] c = "L" -> "l"
      [] c = "M" -> "m" [] c = "N" -> "n" [] c = "O" -> "o" [] c = "P" -> "p"
      [] c = "Q" -> "q" [] c = "R" -> "r" [] c = "S" -> "s" [] c = "T" -> "t"
      [] c = "U" -> "u" [] c = "V" -> "v" [] c = "W" -> "w" [] c = "X" -> "x"
      [] c = "Y" -> "y" [] c = "Z" -> "z" [] OTHER -> c

LowerChars(cs) == [i \in 1..Len(cs) |-> LowerChar(cs[i])]

\* the event names and the prefixes of the model; the tests on them are
\* tabulated once
Names == {"ConsoleLogin", "CreateAccessKey", "StopLogging", "DeleteTrail", "UpdateTrail",
          "ListUsers", "Unknown", "CreateUser", "AttachUserPolicy", "AssumeRole",
          "PutBucketPolicy", "AuthorizeSecurityGroupIngress", "RunInstances",
          "TerminateInstances", "DisableKey", "ListRoles", "ListBuckets", "ListGroups",
          "ListPolicies", "DescribeInstances", "DescribeVolumes", "DescribeVpcs",
          "GetObject", "GetSecretValue", "GetPasswordData"}
Prefixes == {"List", "Describe", "Get", "Create", "Delete", "Update", "Attach", "Detach",
             "Put", "Modify", "Terminate"}
Parts == {"User", "Role", "Policy", "SecurityGroup", "Vpc", "Subnet", "Route", "NetworkAcl"}

StartsWithTable ==
    {pair \in Names \X Prefixes :
        LET cs == Chars(pair[1])
            ps == Chars(pair[2])
        IN  /\ Len(ps) <= Len(cs)
            /\ SubSeq(cs, 1, Len(ps)) = ps}

\* str.startswith
StartsWith(s, prefix) == <<s, prefix>> \in StartsWithTable

\* positions at which the character sequence ps occurs in cs
Occurs(cs, ps) ==
    {i \in 1..(Len(cs) - Len(ps) + 1) : SubSeq(cs, i, i + Len(ps) - 1) = ps}

ContainsTable == {pair \in Names \X Parts : Occurs(Chars(pair[1]), Chars(pair[2])) # {}}

\* part in s
Contains(s, part) == <<s, part>> \in ContainsTable

\* re.match(".*a.*b.*", s, re.IGNORECASE): a occurs, and b occurs after it
MatchTwo(s, a, b) ==
    LET cs == LowerChars(Chars(s))
    IN  \E i \in Occurs(cs, Chars(a)) :
            \E j \in Occurs(cs, Chars(b)) : j >= i + Len(Chars(a))

\* re.match(".*a.*", s, re.IGNORECASE)
MatchOne(s, a) == Occurs(LowerChars(Chars(s)), Chars(a)) # {}

\* str.lower of the error codes and resource types
LowerStr(s) ==
    CASE s = "AccessDenied" -> "accessdenied"
      [] s = "UnauthorizedAccess" -> "unauthorizedaccess"
      [] s = "InvalidClientTokenId" -> "invalidclienttokenid"
      [] s = "Error" -> "error"
      [] s = "ThrottlingException" -> "throttlingexception"
      [] s = "Instance" -> "instance"
      [] s = "AccessKey" -> "accesskey"
      [] OTHER -> s

\* eventSource.split(".")[0]
ServiceOf(event_source) ==
    CASE event_source = "signin.amazonaws.com" -> "signin"
      [] event_source = "iam.amazonaws.com" -> "iam"
      [] event_source = "cloudtrail.amazonaws.com" -> "cloudtrail"
      [] event_source = "s3.amazonaws.com" -> "s3"
      [] event_source = "ec2.amazonaws.com" -> "ec2"
      [] event_source = "sts.amazonaws.com" -> "sts"
      [] event_source = "kms.amazonaws.com" -> "kms"
      [] event_source = "logs.amazonaws.com" -> "logs"
      [] OTHER -> event_source

\* x in list
InSeq(x, seq) == \E i \in 1..Len(seq) : seq[i] = x

Min(a, b) == IF a <= b THEN a ELSE b

(***************************************************************************)
(* Ingest service: the CloudTrail normaliser.                              *)
(***************************************************************************)

\* MITRE_MAPPINGS.get(event_name): the technique id, or None
MITRE_MAPPINGS(event_name) ==
    CASE event_name = "ConsoleLogin" -> "T1078"
      [] event_name = "CreateUser" -> "T1136.003"
      [] event_name = "CreateAccessKey" -> "T1098.001"
      [] event_name \in {"CreateRole", "AttachUserPolicy", "AttachRolePolicy"} -> "T1098"
      [] event_name \in {"AssumeRole", "UpdateAssumeRolePolicy"} -> "T1548"
      [] event_name \in {"StopLogging", "DeleteTrail", "UpdateTrail",
                         "PutEventSelectors", "DeleteFlowLogs"} -> "T1562.008"
      [] event_name \in {"GetSecretValue", "GetPasswordData"} -> "T1555"
      [] event_name \in {"DescribeInstances", "ListBuckets"} -> "T1580"
      [] event_name \in {"ListUsers", "ListRoles"} -> "T1087.004"
      [] event_name = "GetObject" -> "T1530"
      [] event_name = "DeleteBucket" -> "T1485"
      [] event_name = "TerminateInstances" -> "T1489"
      [] OTHER -> None

HIGH_SEVERITY_EVENTS ==
    {"ConsoleLogin", "CreateUser", "CreateAccessKey", "DeleteTrail", "StopLogging",
     "PutBucketPolicy", "PutBucketAcl", "AuthorizeSecurityGroupIngress",
     "CreateSecurityGroup", "ModifyInstanceAttribute", "RunInstances"}

\* one of CRITICAL_SEVERITY_PATTERNS matches the event name
CriticalPatternTable ==
    {event_name \in Names :
        \/ MatchTwo(event_name, "delete", "trail")
        \/ MatchTwo(event_name, "stop", "logging")
        \/ MatchOne(event_name, "disable")
        \/ MatchOne(event_name, "root")}

MatchesCriticalPattern(event_name) == event_name \in CriticalPatternTable

\* determine_severity looking at the high-severity set before the patterns
determine_severity_set_first(event_name, error_code, user_type) ==
    IF user_type = "Root" THEN "critical"
    ELSE IF event_name \in HIGH_SEVERITY_EVENTS THEN "high"
    ELSE IF MatchesCriticalPattern(event_name) THEN "critical"
    ELSE IF error_code \in {"AccessDenied", "UnauthorizedAccess", "InvalidClientTokenId"}
         THEN "high"
    ELSE IF StartsWith(event_name, "List") \/ StartsWith(event_name, "Describe") THEN "low"
    ELSE IF StartsWith(event_name, "Get") THEN "low"
    ELSE "info"

determine_severity(event_name, error_code, user_type) ==
    IF user_type = "Root" THEN "critical"
    ELSE IF MatchesCriticalPattern(event_name) THEN "critical"
    ELSE IF error_code \in {"AccessDenied", "UnauthorizedAccess", "InvalidClientTokenId"}
         THEN "high"
    ELSE IF event_name \in HIGH_SEVERITY_EVENTS THEN "high"
    ELSE IF StartsWith(event_name, "List") \/ StartsWith(event_name, "Describe") THEN "low"
    ELSE IF StartsWith(event_name, "Get") THEN "low"
    ELSE "info"

\* str.startswith with a tuple of prefixes
StartsWithAny(s, prefixes) == \E prefix \in prefixes : StartsWith(s, prefix)

\* the second test is one Python expression, a or b and c or d or e, which
\* groups as a or (b and c) or d or e
categorize_event(event_name, event_source) ==
    IF event_name \in {"ConsoleLogin", "GetFederationToken", "GetSessionToken",
                       "AssumeRole", "AssumeRoleWithSAML", "AssumeRoleWithWebIdentity"}
    THEN "authentication"
    ELSE IF \/ event_source = "iam.amazonaws.com"
            \/ /\ StartsWithAny(event_name, {"Create", "Delete", "Update", "Attach",
                                              "Detach", "Put"})
               /\ Contains(event_name, "User")
            \/ Contains(event_name, "Role")
            \/ Contains(event_name, "Policy")
    THEN "identity_management"
    ELSE IF /\ event_source \in {"ec2.amazonaws.com"}
            /\ \E x \in {"SecurityGroup", "Vpc", "Subnet", "Route", "NetworkAcl"} :
                   Contains(event_name, x)
    THEN "network_security"
    ELSE IF event_source = "s3.amazonaws.com"
            \/ event_name \in {"GetObject", "PutObject", "DeleteObject"}
    THEN "data_access"
    ELSE IF event_source \in {"cloudtrail.amazonaws.com", "logs.amazonaws.com"}
    THEN "logging"
    ELSE IF StartsWithAny(event_name, {"Create", "Delete", "Modify", "Update", "Terminate"})
    THEN "resource_modification"
    ELSE IF StartsWithAny(event_name, {"List", "Describe", "Get"}) THEN "discovery"
    ELSE "other"

\* the tags list built at the end of normalize_cloudtrail_event
CloudTrailTags(event_source, error_code, user_type, mitre_attack) ==
    <<"cloudtrail", ServiceOf(event_source)>>
    \o (IF error_code # None THEN <<"error", LowerStr(error_code)>> ELSE <<>>)
    \o (IF user_type = "Root" THEN <<"root-account">> ELSE <<>>)
    \o (IF mitre_attack # None THEN <<"mitre-" \o mitre_attack>> ELSE <<>>)

\* raw_event.get("userIdentity", {}).get(...) raises unless userIdentity is a mapping
CloudTrailRaises(raw_event) == raw_event.userIdentity.kind \notin {"map", "absent"}

\* The SecurityEvent built from one raw CloudTrail record; event_id is the
\* fresh uuid4 of the model's default factory and now the wall clock.
normalize_cloudtrail_event(raw_event, event_id, now) ==
    LET event_name == raw_event.eventName
        event_source == raw_event.eventSource
        user_identity == raw_event.userIdentity
        user_type == IF user_identity.kind = "map" THEN user_identity.type ELSE None
        error_code == raw_event.errorCode
        mitre_attack == MITRE_MAPPINGS(event_name)
    IN  [event_id |-> event_id,
         source |-> "cloudtrail",
         event_time |-> IF raw_event.eventTime # <<>> THEN raw_event.eventTime[1] ELSE now,
         processed_at |-> <<>>,
         event_type |-> event_name,
         event_category |-> categorize_event(event_name, event_source),
         severity |-> determine_severity(event_name, error_code, user_type),
         status |-> "new",
         actor |-> [kind |-> "map",
                    user_name |-> IF user_identity.kind = "map"
                                  THEN user_identity.userName ELSE None,
                    arn |-> IF user_identity.kind = "map" THEN user_identity.arn ELSE None],
         network |-> [kind |-> "map", source_ip |-> raw_event.sourceIPAddress],
         mitre_attack |-> mitre_attack,
         correlation_id |-> <<>>,
         risk_score |-> <<>>,
         raw_event |-> raw_event,
         tags |-> CloudTrailTags(event_source, error_code, user_type, mitre_attack)]

(***************************************************************************)
(* Ingest service: the GuardDuty normaliser.                               *)
(***************************************************************************)
map_guardduty_severity(severity) ==
    IF severity >= 8 THEN "critical"
    ELSE IF severity >= 6 THEN "high"
    ELSE IF severity >= 4 THEN "medium"
    ELSE IF severity >= 2 THEN "low"
    ELSE "info"

\* finding_type.split(":")[0] if ":" in finding_type else finding_type
FindingPrefix(finding_type) ==
    CASE finding_type = "Recon:EC2/Portscan" -> "Recon"
      [] finding_type = "Stealth:IAMUser/CloudTrailLoggingDisabled" -> "Stealth"
      [] finding_type = "Trojan:EC2/DNSDataExfiltration" -> "Trojan"
      [] OTHER -> finding_type

\* MITRE_MAPPINGS.get(finding_type) of the GuardDuty normaliser, then the
\* first key with the same prefix: the technique id, or None
GuardDutyMitre(finding_type) ==
    CASE finding_type = "Recon:EC2/Portscan" -> "T1595.001"
      [] finding_type = "Stealth:IAMUser/CloudTrailLoggingDisabled" -> "T1562.008"
      [] FindingPrefix(finding_type) = "Recon" -> "T1595.001"
      [] FindingPrefix(finding_type) = "Stealth" -> "T1562.008"
      [] FindingPrefix(finding_type) = "Trojan" -> "T1071"
      [] OTHER -> None

categorize_guardduty_finding(finding_type) ==
    CASE FindingPrefix(finding_type) = "Recon" -> "reconnaissance"
      [] FindingPrefix(finding_type) = "Stealth" -> "defense_evasion"
      [] FindingPrefix(finding_type) = "Trojan" -> "malware"
      [] OTHER -> "other"

\* the tags list built at the end of normalize_guardduty_finding
GuardDutyTags(category, severity, mitre_attack, resource_type) ==
    <<"guardduty", category>>
    \o (IF severity \in {"critical", "high"} THEN <<"high-priority">> ELSE <<>>)
    \o (IF mitre_attack # None THEN <<"mitre-" \o mitre_attack>> ELSE <<>>)
    \o (IF resource_type \notin {None, ""} THEN <<LowerStr(resource_type)>> ELSE <<>>)

\* the NetworkInfo built from the action of the finding: an action is a
\* sequence holding the dict when the dict is there and not empty.  The
\* NetworkConnectionAction fills the record first; the AwsApiCallAction then
\* assigns source_ip and user_agent, on that record when there is one.
GuardDutyNetwork(network_info, api_call) ==
    LET from_connection ==
            IF network_info # <<>>
            THEN [kind |-> "map",
                  source_ip |-> network_info[1].IpAddressV4,
                  source_port |-> network_info[1].RemotePort,
                  destination_port |-> network_info[1].LocalPort,
                  protocol |-> network_info[1].Protocol,
                  user_agent |-> None]
            ELSE [kind |-> "none", source_ip |-> None]
    IN  IF api_call = <<>> THEN from_connection
        ELSE [(IF network_info # <<>> THEN from_connection
               ELSE [kind |-> "map", source_ip |-> None, source_port |-> None,
                     destination_port |-> None, protocol |-> None, user_agent |-> None])
                 EXCEPT !.source_ip = api_call[1].IpAddressV4,
                        !.user_agent = api_call[1].UserAgent]

\* raw_finding.get("Resource", {}).get(...) raises unless Resource is a mapping
GuardDutyRaises(raw_finding) == raw_finding.Resource.kind \notin {"map", "absent"}

\* The SecurityEvent built from one raw GuardDuty finding; actor and network
\* stay None when the finding has no access key and no action details.
normalize_guardduty_finding(raw_finding, event_id, now) ==
    LET finding_type == raw_finding.Type
        severity == map_guardduty_severity(raw_finding.Severity)
        resource_type == IF raw_finding.Resource.kind = "map"
                         THEN raw_finding.Resource.ResourceType ELSE ""
        mitre_attack == GuardDutyMitre(finding_type)
        network_info == raw_finding.Service.NetworkConnectionAction
        api_call == raw_finding.Service.AwsApiCallAction
    IN  [event_id |-> event_id,
         source |-> "guardduty",
         event_time |-> IF raw_finding.CreatedAt # <<>> THEN raw_finding.CreatedAt[1]
                        ELSE now,
         processed_at |-> <<>>,
         event_type |-> finding_type,
         event_category |-> categorize_guardduty_finding(finding_type),
         severity |-> severity,
         status |-> "new",
         actor |-> [kind |-> "none", user_name |-> None, arn |-> None],
         network |-> GuardDutyNetwork(network_info, api_call),
         mitre_attack |-> mitre_attack,
         correlation_id |-> <<>>,
         risk_score |-> <<>>,
         raw_event |-> raw_finding,
         tags |-> GuardDutyTags(categorize_guardduty_finding(finding_type), severity,
                                mitre_attack, resource_type)]

\* serialize_event: None values are dropped, so a sub-record that is None
\* becomes a missing key; instants and enums become their string values.
serialize_event(event) ==
    [event EXCEPT !.actor.kind = IF @ = "none" THEN "absent" ELSE @,
                  !.network.kind = IF @ = "none" THEN "absent" ELSE @]

(***************************************************************************)
(* Event processor: the correlator.                                        *)
(* A window is a sequence of store items in scan order.  Every check       *)
(* returns a sequence holding no record or one (Optional[Dict]).           *)
(***************************************************************************)
BRUTE_FORCE_MIN_EVENTS == 5
RECON_MIN_EVENTS == 20

\* the distinct values of a sequence in order of first appearance (the key
\* order of a dict filled while iterating the sequence)
RECURSIVE Dedup(_)
Dedup(seq) ==
    IF seq = <<>> THEN <<>>
    ELSE LET front == Dedup(SubSeq(seq, 1, Len(seq) - 1))
             last == seq[Len(seq)]
         IN  IF InSeq(last, front) THEN front ELSE Append(front, last)

\* first_event.get(key, ""), on an item or on the empty dict
GetStr(e, key) == IF key \in DOMAIN e THEN e[key] ELSE ""

\* hashlib.sha256(...).hexdigest()[:16], taken as injective: the digest
\* prefix is represented by the string that is hashed
Sha256Hex16(hash_input) == hash_input

generate_correlation_id(events, rule_name) ==
    LET first_event == IF events # <<>> THEN events[1] ELSE [none |-> None]
    IN  Sha256Hex16(rule_name \o ":" \o GetStr(first_event, "event_type")
                              \o ":" \o GetStr(first_event, "source_ip"))

EventIds(events) == [i \in 1..Len(events) |-> events[i].event_id]
EventTypes(events) == [i \in 1..Len(events) |-> events[i].event_type]

\* event.get("network", {}).get("source_ip", "unknown")
SourceIpOf(event) ==
    IF event.network.kind = "map" /\ event.network.source_ip # None
    THEN event.network.source_ip ELSE "unknown"

\* actor.get("user_name") or actor.get("arn") or "unknown"
ActorIdOf(event) ==
    IF event.actor.kind # "map" THEN "unknown"
    ELSE IF event.actor.user_name \notin {None, ""} THEN event.actor.user_name
    ELSE IF event.actor.arn \notin {None, ""} THEN event.actor.arn
    ELSE "unknown"

\* a correlation record; the fields a rule does not set are None or empty
CorrelationRecord(rule, members, severity, source_ip, actor, sequence, event_types, count) ==
    [rule |-> rule,
     source_ip |-> source_ip,
     actor |-> actor,
     sequence |-> sequence,
     event_types |-> event_types,
     event_count |-> count,
     event_ids |-> EventIds(members),
     severity |-> severity,
     correlation_id |-> generate_correlation_id(members, rule)]

IsFailedLogin(e) ==
    \E tag \in {"accessdenied", "unauthorizedaccess", "error"} : InSeq(tag, e.tags)

LoginEvents(events) ==
    LET IsLogin(e) == e.event_type \in {"ConsoleLogin"}
    IN  SelectSeq(events, IsLogin)

\* None.get(...): an item whose network attribute is null
BruteForceRaises(events) ==
    /\ Len(LoginEvents(events)) >= BRUTE_FORCE_MIN_EVENTS
    /\ \E i \in 1..Len(LoginEvents(events)) : LoginEvents(events)[i].network.kind = "null"

\* check_brute_force counting every login of an address, failed or not
check_brute_force_counts_logins(events) ==
    LET login_events == LoginEvents(events)
        ips == Dedup([i \in 1..Len(login_events) |-> SourceIpOf(login_events[i])])
        Failed(ip) ==
            LET Test(e) == SourceIpOf(e) = ip
            IN  SelectSeq(login_events, Test)
        hits == {i \in 1..Len(ips) : Len(Failed(ips[i])) >= BRUTE_FORCE_MIN_EVENTS}
    IN  IF Len(login_events) < BRUTE_FORCE_MIN_EVENTS \/ hits = {} THEN <<>>
        ELSE LET ip == ips[CHOOSE i \in hits : \A j \in hits : i <= j]
             IN  <<CorrelationRecord("brute_force", Failed(ip), "high", ip, None,
                                     <<>>, {}, Len(Failed(ip)))>>

check_brute_force(events) ==
    LET login_events == LoginEvents(events)
        ips == Dedup([i \in 1..Len(login_events) |-> SourceIpOf(login_events[i])])
        Failed(ip) ==
            LET Test(e) == SourceIpOf(e) = ip /\ IsFailedLogin(e)
            IN  SelectSeq(login_events, Test)
        hits == {i \in 1..Len(ips) : Len(Failed(ips[i])) >= BRUTE_FORCE_MIN_EVENTS}
    IN  IF Len(login_events) < BRUTE_FORCE_MIN_EVENTS \/ hits = {} THEN <<>>
        ELSE LET ip == ips[CHOOSE i \in hits : \A j \in hits : i <= j]
             IN  <<CorrelationRecord("brute_force", Failed(ip), "high", ip, None,
                                     <<>>, {}, Len(Failed(ip)))>>

\* sorted(actor_events, key=event_time): a stable sort
RECURSIVE SortByTime(_)
SortByTime(seq) ==
    IF seq = <<>> THEN <<>>
    ELSE LET rest == SortByTime(SubSeq(seq, 1, Len(seq) - 1))
             x == seq[Len(seq)]
             k == Cardinality({i \in 1..Len(rest) : rest[i].event_time <= x.event_time})
         IN  SubSeq(rest, 1, k) \o <<x>> \o SubSeq(rest, k + 1, Len(rest))

IAM_FOLLOW_UPS == {"CreateAccessKey", "CreateUser", "AttachUserPolicy", "AttachRolePolicy"}

\* the scan of one actor's sorted events: login is the last successful
\* ConsoleLogin, iam the follow-ups met once a login has been seen
RECURSIVE ScanActor(_, _, _)
ScanActor(sorted_events, login, iam) ==
    IF sorted_events = <<>> THEN [login |-> login, iam |-> iam]
    ELSE LET event == Head(sorted_events)
         IN  IF event.event_type = "ConsoleLogin" /\ ~InSeq("error", event.tags)
             THEN ScanActor(Tail(sorted_events), <<event>>, iam)
             ELSE IF login # <<>> /\ event.event_type \in IAM_FOLLOW_UPS
             THEN ScanActor(Tail(sorted_events), login, Append(iam, event))
             ELSE ScanActor(Tail(sorted_events), login, iam)

\* None.get(...): an item whose actor attribute is null
PrivilegeEscalationRaises(events) ==
    \E i \in 1..Len(events) : events[i].actor.kind = "null"

\* check_privilege_escalation scanning each actor's events as they come
check_privilege_escalation_unsorted(events) ==
    LET actors == Dedup([i \in 1..Len(events) |-> ActorIdOf(events[i])])
        Of(actor_id) ==
            LET Test(e) == ActorIdOf(e) = actor_id
            IN  SelectSeq(events, Test)
        Found(actor_id) == ScanActor(Of(actor_id), <<>>, <<>>)
        hits == {i \in 1..Len(actors) :
                    Found(actors[i]).login # <<>> /\ Found(actors[i]).iam # <<>>}
    IN  IF hits = {} THEN <<>>
        ELSE LET actor_id == actors[CHOOSE i \in hits : \A j \in hits : i <= j]
                 all_events == Found(actor_id).login \o Found(actor_id).iam
             IN  <<CorrelationRecord("privilege_escalation", all_events, "critical", None,
                                     actor_id, EventTypes(all_events), {},
                                     Len(all_events))>>

check_privilege_escalation(events) ==
    LET actors == Dedup([i \in 1..Len(events) |-> ActorIdOf(events[i])])
        Of(actor_id) ==
            LET Test(e) == ActorIdOf(e) = actor_id
            IN  SelectSeq(events, Test)
        Found(actor_id) == ScanActor(SortByTime(Of(actor_id)), <<>>, <<>>)
        hits == {i \in 1..Len(actors) :
                    Found(actors[i]).login # <<>> /\ Found(actors[i]).iam # <<>>}
    IN  IF hits = {} THEN <<>>
        ELSE LET actor_id == actors[CHOOSE i \in hits : \A j \in hits : i <= j]
                 all_events == Found(actor_id).login \o Found(actor_id).iam
             IN  <<CorrelationRecord("privilege_escalation", all_events, "critical", None,
                                     actor_id, EventTypes(all_events), {},
                                     Len(all_events))>>

TAMPERING_EVENT_TYPES == {"StopLogging", "DeleteTrail", "UpdateTrail"}

\* check_logging_tampering reporting the first matching event only
check_logging_tampering_first_only(events) ==
    LET Test(e) == e.event_type \in TAMPERING_EVENT_TYPES
        tampering_events == SelectSeq(events, Test)
    IN  IF tampering_events = <<>> THEN <<>>
        ELSE <<CorrelationRecord("logging_tampering", <<tampering_events[1]>>, "critical",
                                 None, None, <<>>, {tampering_events[1].event_type}, 1)>>

check_logging_tampering(events) ==
    LET Test(e) == e.event_type \in TAMPERING_EVENT_TYPES
        tampering_events == SelectSeq(events, Test)
    IN  IF tampering_events = <<>> THEN <<>>
        ELSE <<CorrelationRecord("logging_tampering", tampering_events, "critical", None,
                                 None, <<>>,
                                 {tampering_events[i].event_type :
                                     i \in 1..Len(tampering_events)},
                                 Len(tampering_events))>>

ReconEvents(events) ==
    LET Test(e) == \E prefix \in {"List", "Describe", "Get"} : StartsWith(e.event_type, prefix)
    IN  SelectSeq(events, Test)

ReconnaissanceRaises(events) ==
    /\ Len(ReconEvents(events)) >= RECON_MIN_EVENTS
    /\ \E i \in 1..Len(ReconEvents(events)) : ReconEvents(events)[i].network.kind = "null"

\* list(set(...))[:10]: all the types when there are at most ten; which ten
\* of more are kept depends on the iteration order of the set
FirstTen(types) ==
    IF Cardinality(types) <= 10 THEN types
    ELSE CHOOSE T \in SUBSET types : Cardinality(T) = 10

\* check_reconnaissance listing every event id and every event type
check_reconnaissance_uncapped(events) ==
    LET recon_events == ReconEvents(events)
        ips == Dedup([i \in 1..Len(recon_events) |-> SourceIpOf(recon_events[i])])
        Of(ip) ==
            LET Test(e) == SourceIpOf(e) = ip
            IN  SelectSeq(recon_events, Test)
        hits == {i \in 1..Len(ips) : Len(Of(ips[i])) >= RECON_MIN_EVENTS}
    IN  IF Len(recon_events) < RECON_MIN_EVENTS \/ hits = {} THEN <<>>
        ELSE LET ip == ips[CHOOSE i \in hits : \A j \in hits : i <= j]
                 ip_events == Of(ip)
             IN  <<CorrelationRecord("reconnaissance", ip_events, "medium", ip,
                       None, <<>>,
                       {ip_events[i].event_type : i \in 1..Len(ip_events)},
                       Len(ip_events))>>

check_reconnaissance(events) ==
    LET recon_events == ReconEvents(events)
        ips == Dedup([i \in 1..Len(recon_events) |-> SourceIpOf(recon_events[i])])
        Of(ip) ==
            LET Test(e) == SourceIpOf(e) = ip
            IN  SelectSeq(recon_events, Test)
        hits == {i \in 1..Len(ips) : Len(Of(ips[i])) >= RECON_MIN_EVENTS}
    IN  IF Len(recon_events) < RECON_MIN_EVENTS \/ hits = {} THEN <<>>
        ELSE LET ip == ips[CHOOSE i \in hits : \A j \in hits : i <= j]
                 ip_events == Of(ip)
                 record == CorrelationRecord("reconnaissance", ip_events, "medium", ip,
                               None, <<>>,
                               FirstTen({ip_events[i].event_type : i \in 1..Len(ip_events)}),
                               Len(ip_events))
             IN  <<[record EXCEPT !.event_ids = SubSeq(@, 1, Min(20, Len(@)))]>>

\* correlate_events has no handler around the checks: the first check that
\* raises ends the whole call
CorrelateRaises(events) ==
    \/ BruteForceRaises(events)
    \/ PrivilegeEscalationRaises(events)
    \/ ReconnaissanceRaises(events)

correlate_events(events) ==
    check_brute_force(events) \o check_privilege_escalation(events)
        \o check_logging_tampering(events) \o check_reconnaissance(events)

(***************************************************************************)
(* Event processor: risk score and alert decision.                         *)
(***************************************************************************)
SeverityScore(severity) ==
    CASE severity = "critical" -> 80
      [] severity = "high" -> 60
      [] severity = "medium" -> 40
      [] severity = "low" -> 20
      [] severity = "info" -> 10
      [] OTHER -> 10

\* calculate_risk_score adding 20 for every correlation of the evaluation
calculate_risk_score_counts_all(event, correlations) ==
    Min(SeverityScore(event.severity)
          + 20 * Len(correlations)
          + (IF event.mitre_attack # None THEN 10 ELSE 0)
          + (IF InSeq("root-account", event.tags) THEN 30 ELSE 0),
        100)

\* calculate_risk_score starting from the score the event already carries
calculate_risk_score_accumulates(event, correlations) ==
    LET member == {i \in 1..Len(correlations) :
                       InSeq(event.event_id, correlations[i].event_ids)}
    IN  Min((IF event.risk_score # <<>> THEN event.risk_score[1]
             ELSE SeverityScore(event.severity))
              + 20 * Cardinality(member)
              + (IF event.mitre_attack # None THEN 10 ELSE 0)
              + (IF InSeq("root-account", event.tags) THEN 30 ELSE 0),
            100)

calculate_risk_score(event, correlations) ==
    LET member == {i \in 1..Len(correlations) :
                       InSeq(event.event_id, correlations[i].event_ids)}
    IN  Min(SeverityScore(event.severity)
              + 20 * Cardinality(member)
              + (IF event.mitre_attack # None THEN 10 ELSE 0)
              + (IF InSeq("root-account", event.tags) THEN 30 ELSE 0),
            100)

\* should_alert asking for a score above the threshold
should_alert_above(event, risk_score) ==
    \/ event.severity = "critical"
    \/ event.severity = "high" /\ ALERT_THRESHOLD_SEVERITY \in {"high", "medium", "low", "info"}
    \/ risk_score > ALERT_THRESHOLD_RISK_SCORE

should_alert(event, risk_score) ==
    \/ event.severity = "critical"
    \/ event.severity = "high" /\ ALERT_THRESHOLD_SEVERITY \in {"high", "medium", "low", "info"}
    \/ risk_score >= ALERT_THRESHOLD_RISK_SCORE

(***************************************************************************)
(* Event processor: handling of one message.                               *)
(***************************************************************************)

\* the return False paths of process_message
Unprocessed(reason) == [ret |-> FALSE, reason |-> reason, alerts |-> <<>>, update |-> <<>>]

\* the correlations whose first listed member is this event
FirstMemberOf(correlations, event_id) ==
    LET Test(c) == SubSeq(c.event_ids, 1, Min(1, Len(c.event_ids))) = <<event_id>>
    IN  SelectSeq(correlations, Test)

\* one correlation alert for each of them
CorrelationAlerts(first_of, event_id) ==
    [i \in 1..Len(first_of) |->
        [kind |-> "correlation", rule |-> first_of[i].rule, by |-> event_id]]

\* event_correlations[0]["correlation_id"] if the event is in a correlation
CorrelationIdOf(correlations, event_id) ==
    LET Member(c) == InSeq(event_id, c.event_ids)
    IN  IF SelectSeq(correlations, Member) # <<>>
        THEN <<SelectSeq(correlations, Member)[1].correlation_id>>
        ELSE <<>>

\* next((e for e in recent_events if e.get("event_id") == event_id), None)
FirstWithId(recent_events, event_id) ==
    recent_events[CHOOSE i \in 1..Len(recent_events) :
                     /\ recent_events[i].event_id = event_id
                     /\ \A j \in 1..(i - 1) : recent_events[j].event_id # event_id]

\* process_message once the event is scored: the alerts handed to the alert
\* sink and the arguments of the update_event_status call
ProcessScored(event_id, event, correlations, risk_score) ==
    [ret |-> TRUE,
     reason |-> "ok",
     alerts |-> (IF should_alert(event, risk_score)
                 THEN <<[kind |-> "event", rule |-> None, by |-> event_id]>>
                 ELSE <<>>)
                \o CorrelationAlerts(FirstMemberOf(correlations, event_id), event_id),
     update |-> <<[event_id |-> event_id,
                   status |-> "processed",
                   risk_score |-> risk_score,
                   correlation_id |-> CorrelationIdOf(correlations, event_id)]>>]

\* process_message from the correlate_events call on
ProcessFound(event_id, event, correlations) ==
    ProcessScored(event_id, event, correlations, calculate_risk_score(event, correlations))

\* process_message acknowledging whatever it is given
process_message_always_acks(message, recent_events, sns_ok) ==
    [ret |-> TRUE, reason |-> "ok", alerts |-> <<>>, update |-> <<>>]

\* process_message giving up on the message when an alert is not accepted
process_message_alert_aborts(message, recent_events, sns_ok) ==
    IF ~message.json THEN Unprocessed("parse_error")
    ELSE IF message.event_id \in {None, ""} THEN Unprocessed("no_event_id")
    ELSE IF ~InSeq(message.event_id, EventIds(recent_events))
    THEN Unprocessed("not_in_window")
    ELSE IF CorrelateRaises(recent_events) THEN Unprocessed("exception")
    ELSE LET out == ProcessFound(message.event_id,
                                 FirstWithId(recent_events, message.event_id),
                                 correlate_events(recent_events))
         IN  IF out.alerts # <<>> /\ ~sns_ok
             THEN [out EXCEPT !.ret = FALSE, !.update = <<>>]
             ELSE out

\* process_message up to its store update: the value returned, the alerts
\* handed to the alert sink (sns_ok tells whether the sink accepts them) and
\* the arguments of the update_event_status call.
process_message(message, recent_events, sns_ok) ==
    IF ~message.json THEN Unprocessed("parse_error")
    ELSE IF message.event_id \in {None, ""} THEN Unprocessed("no_event_id")
    ELSE IF ~InSeq(message.event_id, EventIds(recent_events))
    THEN Unprocessed("not_in_window")
    ELSE IF CorrelateRaises(recent_events) THEN Unprocessed("exception")
    ELSE ProcessFound(message.event_id,
                      FirstWithId(recent_events, message.event_id),
                      correlate_events(recent_events))

\* update_event_status marking an item it meets again as being processed
update_event_status_reopens(items, event_id, status, risk_score, correlation_id, at, store_ok) ==
    IF ~store_ok THEN items
    ELSE [i \in 1..Len(items) |->
            IF items[i].event_id # event_id THEN items[i]
            ELSE [items[i] EXCEPT !.status = IF @ = "processed" THEN "processing"
                                             ELSE status,
                                  !.processed_at = <<at>>,
                                  !.risk_score = <<risk_score>>]]

\* update_event_status writing the item anew from the fields it was given
update_event_status_replaces(items, event_id, status, risk_score, correlation_id, at, store_ok) ==
    IF ~store_ok THEN items
    ELSE [i \in 1..Len(items) |->
            IF items[i].event_id # event_id THEN items[i]
            ELSE [items[i] EXCEPT !.status = status,
                                  !.processed_at = <<at>>,
                                  !.risk_score = <<risk_score>>,
                                  !.correlation_id = correlation_id,
                                  !.severity = "info",
                                  !.tags = <<>>]]

\* update_event_status: one update_item call; an exception of the store is
\* caught and logged inside the function, so the caller never sees it
update_event_status(items, event_id, status, risk_score, correlation_id, at, store_ok) ==
    IF ~store_ok THEN items
    ELSE [i \in 1..Len(items) |->
            IF items[i].event_id # event_id THEN items[i]
            ELSE [items[i] EXCEPT !.status = status,
                                  !.processed_at = <<at>>,
                                  !.risk_score = <<risk_score>>,
                                  !.correlation_id = IF correlation_id # <<>>
                                                     THEN correlation_id ELSE @]]

\* get_recent_events: the scan with the event_time filter, in scan order;
\* an exception of the store is caught and gives the empty list
get_recent_events(items, minutes, at, store_ok) ==
    LET Recent(e) == e.event_time >= at - minutes
    IN  IF store_ok THEN SelectSeq(items, Recent) ELSE <<>>

(***************************************************************************)
(* Inputs of the model.                                                     *)
(***************************************************************************)

\* raw CloudTrail records a client may post; the last one is malformed
RawLogin ==
    [eventName |-> "ConsoleLogin", eventSource |-> "signin.amazonaws.com",
     eventTime |-> <<0>>, errorCode |-> None, sourceIPAddress |-> "198.51.100.200",
     userIdentity |-> [kind |-> "map", type |-> "IAMUser", userName |-> "alice",
                       arn |-> "arn:alice"]]
RawCreateKey ==
    [eventName |-> "CreateAccessKey", eventSource |-> "iam.amazonaws.com",
     eventTime |-> <<5>>, errorCode |-> None, sourceIPAddress |-> "198.51.100.200",
     userIdentity |-> [kind |-> "map", type |-> "IAMUser", userName |-> "alice",
                       arn |-> "arn:alice"]]
RawStopLogging ==
    [eventName |-> "StopLogging", eventSource |-> "cloudtrail.amazonaws.com",
     eventTime |-> <<5>>, errorCode |-> None, sourceIPAddress |-> "203.0.113.7",
     userIdentity |-> [kind |-> "map", type |-> "IAMUser", userName |-> "bob",
                       arn |-> "arn:bob"]]
RawDeleteTrail ==
    [eventName |-> "DeleteTrail", eventSource |-> "cloudtrail.amazonaws.com",
     eventTime |-> <<0>>, errorCode |-> None, sourceIPAddress |-> "203.0.113.7",
     userIdentity |-> [kind |-> "map", type |-> "IAMUser", userName |-> "bob",
                       arn |-> "arn:bob"]]
RawUpdateTrail ==
    [eventName |-> "UpdateTrail", eventSource |-> "cloudtrail.amazonaws.com",
     eventTime |-> <<0>>, errorCode |-> None, sourceIPAddress |-> "203.0.113.7",
     userIdentity |-> [kind |-> "map", type |-> "IAMUser", userName |-> "bob",
                       arn |-> "arn:bob"]]
RawListUsers ==
    [eventName |-> "ListUsers", eventSource |-> "iam.amazonaws.com",
     eventTime |-> <<5>>, errorCode |-> None, sourceIPAddress |-> None,
     userIdentity |-> [kind |-> "absent", type |-> None, userName |-> None,
                       arn |-> None]]
RawMalformed ==
    [eventName |-> "Unknown", eventSource |-> "unknown",
     eventTime |-> <<5>>, errorCode |-> None, sourceIPAddress |-> None,
     userIdentity |-> [kind |-> "str", type |-> None, userName |-> None, arn |-> None]]

RawRecords == {RawLogin, RawCreateKey, RawStopLogging, RawDeleteTrail, RawUpdateTrail,
               RawListUsers, RawMalformed}

\* request bodies of the ingestion runs: the non-empty lists of at most
\* MaxBatch records, one kind of well-formed record and the malformed one
Requests == UNION {[1..n -> {RawStopLogging, RawListUsers, RawMalformed}] : n \in 1..MaxBatch}

\* request bodies of the pipeline runs: one well-formed record each
SingleRequests == {<<RawStopLogging>>, <<RawUpdateTrail>>}

\* raw GuardDuty findings a client may post; the last one is malformed
FindingPortscan ==
    [Type |-> "Recon:EC2/Portscan", CreatedAt |-> <<5>>, Severity |-> 5,
     Resource |-> [kind |-> "map", ResourceType |-> "Instance"],
     Service |-> [NetworkConnectionAction |-> <<>>, AwsApiCallAction |-> <<>>]]
FindingMalformed ==
    [Type |-> "Trojan:EC2/DNSDataExfiltration", CreatedAt |-> <<5>>, Severity |-> 8,
     Resource |-> [kind |-> "str", ResourceType |-> None],
     Service |-> [NetworkConnectionAction |-> <<>>, AwsApiCallAction |-> <<>>]]

\* request bodies of /ingest/guardduty: the non-empty lists of at most
\* MaxBatch findings
FindingRequests == UNION {[1..n -> {FindingPortscan, FindingMalformed}] : n \in 1..MaxBatch}

\* the uuid4 of the n-th event created
IdOf(n) == "e" \o ToString(n)

\* an item that another writer of the table left with a null actor
ForeignItem ==
    [event_id |-> "x1", source |-> "securityhub", event_time |-> 5,
     processed_at |-> <<>>, event_type |-> "StopLogging",
     event_category |-> "logging", severity |-> "critical",
     status |-> "new",
     actor |-> [kind |-> "null", user_name |-> None, arn |-> None],
     network |-> [kind |-> "absent", source_ip |-> None],
     mitre_attack |-> None, correlation_id |-> <<>>, risk_score |-> <<>>,
     raw_event |-> [Id |-> "x1"],
     tags |-> <<"securityhub">>]

\* message bodies that are not the ingestor's: not JSON, and JSON without event_id
ForeignBodies == {[json |-> FALSE, event_id |-> None], [json |-> TRUE, event_id |-> None]}

(***************************************************************************)
(* State.                                                                  *)
(***************************************************************************)
VARIABLES
    now,            \* the wall clock, in minutes
    store,          \* the events table: the items in scan order
    queue,          \* the messages of the queue, each visible or in flight
    nextId,         \* number of events created so far
    request,        \* ingest service: the body of the last ingestion request
    response,       \* ingest service: the response to it
    tasks,          \* ingest service: the background tasks not yet finished
    task_error,     \* ingest service: the last process_and_store ended by raising
    is_processing,  \* processor: the flag of the poll loop
    pc,             \* processor: where the poll-loop task stands
    batch,          \* processor: the messages of the tick
    idx,            \* processor: index in batch of the message at hand
    window,         \* processor: recent_events of the tick
    last,           \* processor: outcome of the last process_message call of the tick
    sent            \* processor: the alerts dispatched so far in the tick

ingestVars == <<nextId, request, response, tasks, task_error>>
procVars == <<is_processing, pc, batch, idx, window, last, sent>>
vars == <<now, store, queue, nextId, request, response, tasks, task_error,
          is_processing, pc, batch, idx, window, last, sent>>

NoCall == [message |-> [json |-> FALSE, event_id |-> None], ret |-> FALSE,
           reason |-> "none", sns_failed |-> FALSE, update_failed |-> FALSE,
           update |-> <<>>]

Init ==
    /\ now = 5
    /\ store = <<>>
    /\ queue = {}
    /\ nextId = 0
    /\ request = <<>>
    /\ response = [status |-> "none", events_received |-> 0, events_processed |-> 0,
                   event_ids |-> <<>>]
    /\ tasks = <<>>
    /\ task_error = FALSE
    /\ is_processing = [p \in Procs |-> TRUE]
    /\ pc = [p \in Procs |-> "poll"]
    /\ batch = [p \in Procs |-> <<>>]
    /\ idx = [p \in Procs |-> 1]
    /\ window = [p \in Procs |-> <<>>]
    /\ last = [p \in Procs |-> NoCall]
    /\ sent = [p \in Procs |-> <<>>]

(***************************************************************************)
(* Ingest service.                                                         *)
(***************************************************************************)

\* the loop giving up on the rest of the request at the first record whose
\* normalisation raises
RECURSIVE IngestLoopAborts(_, _, _)
IngestLoopAborts(raws, acc, at) ==
    IF raws = <<>> THEN acc
    ELSE LET raw_event == Head(raws)
         IN  IF CloudTrailRaises(raw_event) THEN acc
             ELSE LET normalized ==
                          normalize_cloudtrail_event(raw_event, IdOf(acc.created + 1), at)
                  IN  IngestLoopAborts(Tail(raws),
                                       [created |-> acc.created + 1,
                                        scheduled |-> Append(acc.scheduled, normalized),
                                        event_ids |-> Append(acc.event_ids,
                                                             normalized.event_id),
                                        processed |-> acc.processed + 1],
                                       at)

\* the loop of ingest_cloudtrail over the records of the request: a record
\* whose normalisation raises is logged and skipped
RECURSIVE IngestLoop(_, _, _)
IngestLoop(raws, acc, at) ==
    IF raws = <<>> THEN acc
    ELSE LET raw_event == Head(raws)
         IN  IF CloudTrailRaises(raw_event) THEN IngestLoop(Tail(raws), acc, at)
             ELSE LET normalized ==
                          normalize_cloudtrail_event(raw_event, IdOf(acc.created + 1), at)
                  IN  IngestLoop(Tail(raws),
                                 [created |-> acc.created + 1,
                                  scheduled |-> Append(acc.scheduled, normalized),
                                  event_ids |-> Append(acc.event_ids, normalized.event_id),
                                  processed |-> acc.processed + 1],
                                 at)

ingest_cloudtrail(raws, max_events) ==
    LET done == IngestLoop(raws, [created |-> nextId, scheduled |-> <<>>,
                                  event_ids |-> <<>>, processed |-> 0], now)
    IN  /\ done.created <= max_events
        /\ nextId' = done.created
        /\ request' = raws
        /\ response' = [status |-> "accepted",
                        events_received |-> Len(raws),
                        events_processed |-> done.processed,
                        event_ids |-> done.event_ids]
        /\ tasks' = tasks \o [i \in 1..Len(done.scheduled) |->
                                 [event |-> done.scheduled[i], stage |-> "store"]]
        /\ UNCHANGED <<now, store, queue, task_error, procVars>>

\* the loop of ingest_guardduty over the findings of the request
RECURSIVE FindingLoop(_, _, _)
FindingLoop(findings, acc, at) ==
    IF findings = <<>> THEN acc
    ELSE LET raw_finding == Head(findings)
         IN  IF GuardDutyRaises(raw_finding) THEN FindingLoop(Tail(findings), acc, at)
             ELSE LET normalized ==
                          normalize_guardduty_finding(raw_finding, IdOf(acc.created + 1), at)
                  IN  FindingLoop(Tail(findings),
                                  [created |-> acc.created + 1,
                                   scheduled |-> Append(acc.scheduled, normalized),
                                   event_ids |-> Append(acc.event_ids, normalized.event_id),
                                   processed |-> acc.processed + 1],
                                  at)

ingest_guardduty(findings, max_events) ==
    LET done == FindingLoop(findings, [created |-> nextId, scheduled |-> <<>>,
                                       event_ids |-> <<>>, processed |-> 0], now)
    IN  /\ done.created <= max_events
        /\ nextId' = done.created
        /\ request' = findings
        /\ response' = [status |-> "accepted",
                        events_received |-> Len(findings),
                        events_processed |-> done.processed,
                        event_ids |-> done.event_ids]
        /\ tasks' = tasks \o [i \in 1..Len(done.scheduled) |->
                                 [event |-> done.scheduled[i], stage |-> "store"]]
        /\ UNCHANGED <<now, store, queue, task_error, procVars>>

\* table.put_item: replaces the item with the same key, else adds the item
\* at the place the hash of its key gives it in the scan order
put_item(items, item, pos) ==
    IF \E i \in 1..Len(items) : items[i].event_id = item.event_id
    THEN [i \in 1..Len(items) |->
             IF items[i].event_id = item.event_id THEN item ELSE items[i]]
    ELSE SubSeq(items, 1, pos - 1) \o <<item>> \o SubSeq(items, pos, Len(items))

\* store_event logging a failure of the store without raising it again:
\* process_and_store goes on to queue_event
store_event_swallows(store_ok) ==
    /\ tasks # <<>>
    /\ Head(tasks).stage = "store"
    /\ LET event == Head(tasks).event
       IN  IF store_ok
           THEN \E pos \in 1..(Len(store) + 1) :
                   store' = put_item(store, serialize_event(event), pos)
           ELSE UNCHANGED store
    /\ tasks' = <<[event |-> Head(tasks).event, stage |-> "queue"]>> \o Tail(tasks)
    /\ UNCHANGED <<now, queue, nextId, request, response, task_error, procVars>>

\* process_and_store, first half: store_event logs and re-raises a failure
\* of the store, which ends the task before queue_event
store_event(store_ok) ==
    /\ tasks # <<>>
    /\ Head(tasks).stage = "store"
    /\ LET event == Head(tasks).event
       IN  IF store_ok
           THEN /\ \E pos \in 1..(Len(store) + 1) :
                       store' = put_item(store, serialize_event(event), pos)
                /\ tasks' = <<[event |-> event, stage |-> "queue"]>> \o Tail(tasks)
                /\ UNCHANGED task_error
           ELSE /\ tasks' = Tail(tasks)
                /\ task_error' = TRUE
                /\ UNCHANGED store
    /\ UNCHANGED <<now, queue, nextId, request, response, procVars>>

\* queue_event letting the failure of the publish call out
queue_event_raises(messages, event, queue_ok) ==
    IF queue_ok
    THEN [queue |-> messages \cup {[json |-> TRUE, event_id |-> event.event_id,
                                    visible |-> TRUE]},
          raised |-> FALSE]
    ELSE [queue |-> messages, raised |-> TRUE]

\* what queue_event does to the queue and whether it raises
queue_event(messages, event, queue_ok) ==
    IF queue_ok
    THEN [queue |-> messages \cup {[json |-> TRUE, event_id |-> event.event_id,
                                    visible |-> TRUE]},
          raised |-> FALSE]
    ELSE [queue |-> messages, raised |-> FALSE]

\* process_and_store, second half
publish_event(queue_ok) ==
    /\ tasks # <<>>
    /\ Head(tasks).stage = "queue"
    /\ LET event == Head(tasks).event
           out == queue_event(queue, event, queue_ok)
       IN  /\ queue' = out.queue
           /\ task_error' = out.raised
    /\ tasks' = Tail(tasks)
    /\ UNCHANGED <<now, store, nextId, request, response, procVars>>

(***************************************************************************)
(* Environment: the clock, the queue's visibility timeout, other writers.  *)
(***************************************************************************)
\* the body of a queue message
Body(m) == [json |-> m.json, event_id |-> m.event_id]

AdvanceClock ==
    /\ now + CORRELATION_WINDOW_MINUTES <= MaxNow
    /\ now' = now + CORRELATION_WINDOW_MINUTES
    /\ UNCHANGED <<store, queue, ingestVars, procVars>>

\* the messages a processor holds in the batch of its running tick
Held(p) == {batch[p][i] : i \in 1..Len(batch[p])}

\* a message in flight that was not deleted becomes visible again; holders
\* are the processors whose tick is shorter than the visibility timeout
VisibilityTimeout(holders) ==
    /\ \E m \in queue :
          /\ ~m.visible
          /\ \A p \in holders : Body(m) \notin Held(p)
          /\ queue' = (queue \ {m}) \cup {[m EXCEPT !.visible = TRUE]}
    /\ UNCHANGED <<now, store, ingestVars, procVars>>

ForeignSend ==
    /\ Cardinality(queue) < MaxMsgs
    /\ \E body \in ForeignBodies :
          /\ \A m \in queue : m.event_id # None
          /\ queue' = queue \cup {[json |-> body.json, event_id |-> body.event_id,
                                   visible |-> TRUE]}
    /\ UNCHANGED <<now, store, ingestVars, procVars>>

ForeignPut ==
    /\ \A i \in 1..Len(store) : store[i].event_id # ForeignItem.event_id
    /\ \E pos \in 1..(Len(store) + 1) : store' = put_item(store, ForeignItem, pos)
    /\ UNCHANGED <<now, queue, ingestVars, procVars>>

(***************************************************************************)
(* Event processor: the poll loop.                                         *)
(* pc is "poll" while the task waits for receive_message, "process" when   *)
(* process_message is about to be called on batch[idx], "delete" while it  *)
(* waits for delete_message, "sleep" in the back-off after an error and    *)
(* "cancelled" once the task has been cancelled.                            *)
(***************************************************************************)

\* the sequences that list every element of a set once
Orderings(S) ==
    {f \in [1..Cardinality(S) -> S] : \A i, j \in 1..Cardinality(S) : i # j => f[i] # f[j]}

\* one tick starts: receive_message returns some visible messages, which
\* become invisible, and the window is loaded once for the batch
receive_messages(p, store_ok) ==
    /\ pc[p] = "poll"
    /\ is_processing[p]
    /\ \E got \in SUBSET {m \in queue : m.visible} :
          /\ got # {}
          /\ Cardinality(got) <= Min(BATCH_SIZE, MaxBatch)
          /\ \E messages \in Orderings({Body(m) : m \in got}) :
                batch' = [batch EXCEPT ![p] = messages]
          /\ queue' = (queue \ got) \cup {[m EXCEPT !.visible = FALSE] : m \in got}
    /\ window' = [window EXCEPT
                    ![p] = get_recent_events(store, CORRELATION_WINDOW_MINUTES, now, store_ok)]
    /\ idx' = [idx EXCEPT ![p] = 1]
    /\ pc' = [pc EXCEPT ![p] = "process"]
    /\ UNCHANGED <<now, store, ingestVars, is_processing, last, sent>>

\* receive_message raises and the exception leaves the loop: the task ends
receive_fails_ends(p) ==
    /\ pc[p] = "poll"
    /\ is_processing[p]
    /\ pc' = [pc EXCEPT ![p] = "stopped"]
    /\ UNCHANGED <<now, store, queue, ingestVars, is_processing, batch, idx, window,
                   last, sent>>

\* receive_message raises: the handler of the loop logs and sleeps
receive_fails(p) ==
    /\ pc[p] = "poll"
    /\ is_processing[p]
    /\ pc' = [pc EXCEPT ![p] = "sleep"]
    /\ UNCHANGED <<now, store, queue, ingestVars, is_processing, batch, idx, window,
                   last, sent>>

\* the back-off ends and the loop tests its flag again
wake_up(p) ==
    /\ pc[p] = "sleep"
    /\ pc' = [pc EXCEPT ![p] = "poll"]
    /\ UNCHANGED <<now, store, queue, ingestVars, is_processing, batch, idx, window,
                   last, sent>>

\* the tick is over: messages and recent_events are not read again, and
\* the record of the tick is closed
EndTick(p, to) ==
    /\ pc' = [pc EXCEPT ![p] = to]
    /\ batch' = [batch EXCEPT ![p] = <<>>]
    /\ idx' = [idx EXCEPT ![p] = 1]
    /\ window' = [window EXCEPT ![p] = <<>>]
    /\ last' = [last EXCEPT ![p] = NoCall]
    /\ sent' = [sent EXCEPT ![p] = <<>>]

\* the for loop moves to the next message, or the tick ends
NextMessage(p, call, alerts) ==
    IF idx[p] + 1 <= Len(batch[p])
    THEN /\ idx' = [idx EXCEPT ![p] = @ + 1]
         /\ pc' = [pc EXCEPT ![p] = "process"]
         /\ last' = [last EXCEPT ![p] = call]
         /\ sent' = [sent EXCEPT ![p] = alerts]
         /\ UNCHANGED <<batch, window>>
    ELSE EndTick(p, "poll")

\* the record of one process_message call
CallOf(message, out, sns_ok, store_ok) ==
    [message |-> message, ret |-> out.ret, reason |-> out.reason,
     sns_failed |-> out.alerts # <<>> /\ ~sns_ok,
     update_failed |-> out.update # <<>> /\ ~store_ok,
     update |-> out.update]

\* the loop body after process_message returned out: the store update of
\* the call, then delete_message if it returned True
AfterProcess(p, message, out, sns_ok, store_ok) ==
    /\ store' = IF out.update = <<>> THEN store
                ELSE update_event_status(store, out.update[1].event_id,
                         out.update[1].status, out.update[1].risk_score,
                         out.update[1].correlation_id, now, store_ok)
    /\ IF out.ret
       THEN /\ pc' = [pc EXCEPT ![p] = "delete"]
            /\ last' = [last EXCEPT ![p] = CallOf(message, out, sns_ok, store_ok)]
            /\ sent' = [sent EXCEPT ![p] = @ \o out.alerts]
            /\ UNCHANGED <<idx, batch, window>>
       ELSE NextMessage(p, CallOf(message, out, sns_ok, store_ok), sent[p] \o out.alerts)

\* handle_message scanning the table again for every message
handle_message_reloads(p, sns_ok, store_ok) ==
    /\ pc[p] = "process"
    /\ AfterProcess(p, batch[p][idx[p]],
                    process_message(batch[p][idx[p]],
                        get_recent_events(store, CORRELATION_WINDOW_MINUTES, now, TRUE),
                        sns_ok),
                    sns_ok, store_ok)
    /\ UNCHANGED <<now, queue, ingestVars, is_processing>>

\* process_message on batch[idx], with its alerts and its store update
handle_message(p, sns_ok, store_ok) ==
    /\ pc[p] = "process"
    /\ AfterProcess(p, batch[p][idx[p]],
                    process_message(batch[p][idx[p]], window[p], sns_ok), sns_ok, store_ok)
    /\ UNCHANGED <<now, queue, ingestVars, is_processing>>

Without(messages, body) ==
    {m \in messages : m.json # body.json \/ m.event_id # body.event_id}

\* delete_message of the message just processed with success
delete_message(p) ==
    /\ pc[p] = "delete"
    /\ queue' = Without(queue, batch[p][idx[p]])
    /\ NextMessage(p, last[p], sent[p])
    /\ UNCHANGED <<now, store, ingestVars, is_processing>>

\* delete_message raises: the handler of the loop ends the tick and sleeps
delete_fails(p) ==
    /\ pc[p] = "delete"
    /\ EndTick(p, "sleep")
    /\ UNCHANGED <<now, store, queue, ingestVars, is_processing>>

\* lifespan shutdown: the flag is cleared and the task is cancelled where it
\* waits.  A delete_message call already handed to the executor thread may
\* or may not have reached the queue.
shutdown(p, delete_done) ==
    /\ is_processing[p]
    /\ pc[p] \in {"poll", "delete", "sleep"}
    /\ is_processing' = [is_processing EXCEPT ![p] = FALSE]
    /\ pc' = [pc EXCEPT ![p] = "cancelled"]
    /\ queue' = IF pc[p] = "delete" /\ delete_done
                THEN Without(queue, batch[p][idx[p]]) ELSE queue
    /\ UNCHANGED <<now, store, ingestVars, batch, idx, window, last, sent>>

\* lifespan startup of a new run of the service
startup(p) ==
    /\ pc[p] = "cancelled"
    /\ is_processing' = [is_processing EXCEPT ![p] = TRUE]
    /\ EndTick(p, "poll")
    /\ UNCHANGED <<now, store, queue, ingestVars>>

\* the ingest service fed one record per request
Ingest ==
    \/ \E raws \in SingleRequests : ingest_cloudtrail(raws, MaxEvents)
    \/ \E store_ok \in BOOLEAN : store_event(store_ok)
    \/ \E queue_ok \in BOOLEAN : publish_event(queue_ok)

\* the poll loop of one processor instance
Processor(p) ==
    \/ \E store_ok \in BOOLEAN : receive_messages(p, store_ok)
    \/ receive_fails(p)
    \/ wake_up(p)
    \/ \E sns_ok \in BOOLEAN, store_ok \in BOOLEAN : handle_message(p, sns_ok, store_ok)
    \/ delete_message(p)
    \/ delete_fails(p)

Next ==
    \/ Ingest
    \/ VisibilityTimeout(Procs)
    \/ Processor("p1")

\* the pipeline: the ingest service, the queue and one processor instance
Spec == Init /\ [][Next]_vars

\* the poll loop of one instance while the table and the alert sink answer
\* every call but the scan of the window
Worker(p) ==
    \/ \E store_ok \in BOOLEAN : receive_messages(p, store_ok)
    \/ handle_message(p, TRUE, TRUE)
    \/ delete_message(p)

\* the ingest service while the table and the queue answer every call
IngestShared ==
    \/ \E raws \in SingleRequests : ingest_cloudtrail(raws, MaxSharedEvents)
    \/ store_event(TRUE)
    \/ publish_event(TRUE)

NextEnv ==
    \/ IngestShared
    \/ VisibilityTimeout(Procs)
    \/ ForeignSend
    \/ ForeignPut
    \/ Worker("p1")

\* the pipeline with other producers on the queue and other writers of the table
SpecEnv == Init /\ [][NextEnv]_vars

NextClock ==
    \/ Next
    \/ AdvanceClock

\* the pipeline while time passes
SpecClock == Init /\ [][NextClock]_vars

NextLifespan ==
    \/ Next
    \/ \E delete_done \in BOOLEAN : shutdown("p1", delete_done)
    \/ startup("p1")

\* the pipeline with the processor service shut down and started again
SpecLifespan == Init /\ [][NextLifespan]_vars

NextTwo ==
    \/ IngestShared
    \/ VisibilityTimeout({})
    \/ Worker("p1")
    \/ Worker("p2")

\* two processor instances on the same queue and table
SpecTwo == Init /\ [][NextTwo]_vars

NextIngest ==
    \/ \E raws \in Requests : ingest_cloudtrail(raws, MaxEvents)
    \/ \E findings \in FindingRequests : ingest_guardduty(findings, MaxEvents)
    \/ \E store_ok \in BOOLEAN : store_event(store_ok)
    \/ \E queue_ok \in BOOLEAN : publish_event(queue_ok)

\* the ingest service alone, with requests of several records
SpecIngest == Init /\ [][NextIngest]_vars

NextPoll ==
    \/ IngestShared
    \/ VisibilityTimeout(Procs)
    \/ Processor("p1")
    \/ \E delete_done \in BOOLEAN : shutdown("p1", delete_done)
    \/ startup("p1")

\* the event loop keeps running the poll task: a sleep ends, a
\* delete_message call returns or raises, and a process_message call
\* returns.  The last conjunct is WF_vars of handle_message written out:
\* handle_message is enabled exactly when pc is "process", and its steps are
\* the steps that move pc or idx from there.
PollTaskRuns(p) ==
    /\ WF_vars(wake_up(p))
    /\ WF_vars(delete_message(p) \/ delete_fails(p))
    /\ \/ []<>(pc[p] # "process")
       \/ []<><<pc[p] = "process" /\ (pc'[p] # "process" \/ idx'[p] # idx[p])>>_vars

\* one processor instance whose calls may fail, shut down and started again
SpecPoll == Init /\ [][NextPoll]_vars /\ PollTaskRuns("p1")

\* the pipeline while time passes and every call of the store, the queue
\* and the alert sink succeeds; a record may carry an eventTime of the past
NextLate ==
    \/ \E raws \in {<<RawLogin>>, <<RawCreateKey>>} :
          ingest_cloudtrail(raws, MaxEvents)
    \/ store_event(TRUE)
    \/ publish_event(TRUE)
    \/ AdvanceClock
    \/ VisibilityTimeout(Procs)
    \/ receive_messages("p1", TRUE)
    \/ handle_message("p1", TRUE, TRUE)
    \/ delete_message("p1")

\* the background tasks of the ingest service run, the queue shows again a
\* message that was received and not deleted, and the poll loop runs: its
\* long poll returns the messages that are visible
SpecLate ==
    /\ Init
    /\ [][NextLate]_vars
    /\ WF_vars(store_event(TRUE))
    /\ WF_vars(publish_event(TRUE))
    /\ WF_vars(VisibilityTimeout(Procs))
    /\ WF_vars(receive_messages("p1", TRUE))
    /\ PollTaskRuns("p1")

(***************************************************************************)
(* The processor on a table that already holds the events of a scenario:   *)
(* logins from two addresses, chains of logins and IAM changes, trail      *)
(* changes, bursts of discovery calls, and items of other producers.       *)
(***************************************************************************)
RawEvent(name, source, at, error, ip, user) ==
    [eventName |-> name, eventSource |-> source, eventTime |-> <<at>>,
     errorCode |-> error, sourceIPAddress |-> ip,
     userIdentity |-> [kind |-> "map", type |-> "IAMUser", userName |-> user,
                       arn |-> "arn:" \o user]]

Repeat(x, n) == [i \in 1..n |-> x]

\* the items the ingest service stores for a list of raw records
StoredItems(raws) ==
    [i \in 1..Len(raws) |->
        serialize_event(normalize_cloudtrail_event(raws[i], IdOf(i), 5))]

FailedLogin(ip) ==
    RawEvent("ConsoleLogin", "signin.amazonaws.com", 0, "AccessDenied", ip, "target")
GoodLogin(ip) ==
    RawEvent("ConsoleLogin", "signin.amazonaws.com", 0, None, ip, "target")

\* failed and successful logins from one address, then failed logins from
\* another address or without an address
LoginStores ==
    {StoredItems(Repeat(FailedLogin("198.51.100.200"), a)
                 \o Repeat(GoodLogin("198.51.100.200"), c)
                 \o Repeat(FailedLogin(ip), b)) :
        <<a, b, c, ip>> \in (0..MaxLogins) \X (0..MaxLogins) \X (0..1)
                               \X {"192.0.2.9", None}}

ChainRecords ==
    {RawEvent("ConsoleLogin", "signin.amazonaws.com", at, error, "203.0.113.50", "alice") :
        <<at, error>> \in {0, 5} \X {None, "AccessDenied"}}
    \cup {RawEvent(name, "iam.amazonaws.com", at, None, "203.0.113.50", "alice") :
            <<name, at>> \in {"CreateAccessKey", "AttachUserPolicy"} \X {0, 5}}
    \cup {RawEvent("CreateAccessKey", "iam.amazonaws.com", at, None, "203.0.113.50", "bob") :
            at \in {0, 5}}

\* logins and IAM changes of two users, in any order and at equal or
\* different times
ChainStores == UNION {{StoredItems(raws) : raws \in [1..n -> ChainRecords]} : n \in 1..MaxChain}

TrailRecords ==
    {RawEvent(name, "cloudtrail.amazonaws.com", 5, None, "198.51.100.100", "suspicious") :
        name \in {"StopLogging", "DeleteTrail", "UpdateTrail"}}
    \cup {RawEvent("ListUsers", "iam.amazonaws.com", 5, None, "198.51.100.100", "suspicious")}

TrailStores == UNION {{StoredItems(raws) : raws \in [1..n -> TrailRecords]} : n \in 1..MaxChain}

DiscoveryNames ==
    <<"ListUsers", "DescribeInstances", "GetObject", "ListRoles", "ListBuckets",
      "ListGroups", "ListPolicies", "DescribeVolumes", "DescribeVpcs", "GetSecretValue",
      "GetPasswordData">>

DiscoveryCall(i, kinds, ip) ==
    RawEvent(DiscoveryNames[((i - 1) % kinds) + 1], "ec2.amazonaws.com", 5, None, ip, "scanner")

\* a burst of discovery calls from one address, one trail change, and a few
\* discovery calls from another address
DiscoveryStores ==
    {StoredItems([i \in 1..a |-> DiscoveryCall(i, kinds, "198.51.100.7")]
                 \o <<RawEvent("UpdateTrail", "cloudtrail.amazonaws.com", 5, None,
                                "198.51.100.7", "scanner")>>
                 \o [i \in 1..b |-> DiscoveryCall(i, kinds, "192.0.2.9")]) :
        <<a, b, kinds>> \in ((RECON_MIN_EVENTS - 1)..(RECON_MIN_EVENTS + MaxExtra))
                               \X (0..(MaxExtra + 1)) \X {3, Len(DiscoveryNames)}}

\* single items written by other producers: any severity, with or without
\* a technique and the root-account tag
OtherStores ==
    {<<[ForeignItem EXCEPT !.event_id = "e1", !.event_type = "Finding",
                           !.event_category = "other",
                           !.actor = [kind |-> "absent", user_name |-> None, arn |-> None],
                           !.severity = severity, !.mitre_attack = technique,
                           !.tags = tags]>> :
        <<severity, technique, tags>> \in
            {"critical", "high", "medium", "low", "info"} \X {None, "T1078"}
                \X {<<"securityhub">>, <<"securityhub", "root-account">>}}

ScenarioStores == LoginStores \cup ChainStores \cup TrailStores \cup DiscoveryStores
                      \cup OtherStores

\* the table holds the items of one scenario and the queue the message of
\* one of them
InitScenario ==
    /\ now = 5
    /\ store \in ScenarioStores \ {<<>>}
    /\ \E i \in {1, Len(store)} :
          queue = {[json |-> TRUE, event_id |-> store[i].event_id, visible |-> TRUE]}
    /\ nextId = Len(store)
    /\ request = <<>>
    /\ response = [status |-> "none", events_received |-> 0, events_processed |-> 0,
                   event_ids |-> <<>>]
    /\ tasks = <<>>
    /\ task_error = FALSE
    /\ is_processing = [p \in Procs |-> TRUE]
    /\ pc = [p \in Procs |-> "poll"]
    /\ batch = [p \in Procs |-> <<>>]
    /\ idx = [p \in Procs |-> 1]
    /\ window = [p \in Procs |-> <<>>]
    /\ last = [p \in Procs |-> NoCall]
    /\ sent = [p \in Procs |-> <<>>]

NextScenario == Worker("p1")

\* one processor instance on the table of a scenario
SpecScenario == InitScenario /\ [][NextScenario]_vars

(***************************************************************************)
(* The ingest service fed single records that span the severity and the    *)
(* category rules.                                                         *)
(***************************************************************************)
\* the service an API call belongs to
SourceOf(event_name) ==
    CASE event_name = "ConsoleLogin" -> "signin.amazonaws.com"
      [] event_name \in {"DeleteTrail", "StopLogging", "UpdateTrail"}
            -> "cloudtrail.amazonaws.com"
      [] event_name = "ListUsers" -> "iam.amazonaws.com"
      [] event_name \in {"GetObject", "PutBucketPolicy"} -> "s3.amazonaws.com"
      [] event_name = "AssumeRole" -> "sts.amazonaws.com"
      [] event_name = "DisableKey" -> "kms.amazonaws.com"
      [] OTHER -> "ec2.amazonaws.com"

RuleNames ==
    {"ConsoleLogin", "DeleteTrail", "UpdateTrail", "ListUsers", "GetObject",
     "PutBucketPolicy", "AssumeRole", "DisableKey", "RunInstances", "DescribeInstances",
     "TerminateInstances", "AuthorizeSecurityGroupIngress"}

\* each call made by an IAM user with success, denied or throttled, and by
\* the root user
RuleRecords ==
    {[RawEvent(name, SourceOf(name), 5, how[1], "203.0.113.50", "alice")
         EXCEPT !.userIdentity.type = how[2]] :
        <<name, how>> \in
            RuleNames \X {<<None, "IAMUser">>, <<"AccessDenied", "IAMUser">>,
                          <<"ThrottlingException", "IAMUser">>, <<None, "Root">>}}

NextNormalize ==
    \/ \E raw_event \in RuleRecords : ingest_cloudtrail(<<raw_event>>, MaxSharedEvents)
    \/ store_event(TRUE)
    \/ publish_event(TRUE)

SpecNormalize == Init /\ [][NextNormalize]_vars

(***************************************************************************)
(* The ingest service fed single findings with and without the two kinds   *)
(* of action.                                                              *)
(***************************************************************************)
\* Service.Action.NetworkConnectionAction: missing, with the address of the
\* remote end, or without RemoteIpDetails
ConnectionActions ==
    {<<>>,
     <<[IpAddressV4 |-> "198.51.100.7", RemotePort |-> 4444, LocalPort |-> 22,
        Protocol |-> "TCP"]>>,
     <<[IpAddressV4 |-> None, RemotePort |-> 4444, LocalPort |-> 22, Protocol |-> "TCP"]>>}

\* Service.Action.AwsApiCallAction: missing, with the address of the caller,
\* or without RemoteIpDetails
ApiCallActions ==
    {<<>>,
     <<[IpAddressV4 |-> "203.0.113.50", UserAgent |-> "aws-cli"]>>,
     <<[IpAddressV4 |-> None, UserAgent |-> "aws-cli"]>>}

ActionFindings ==
    {[Type |-> type, CreatedAt |-> <<5>>, Severity |-> severity,
      Resource |-> [kind |-> "map", ResourceType |-> "Instance"],
      Service |-> [NetworkConnectionAction |-> connection, AwsApiCallAction |-> api_call]] :
        <<type, severity, connection, api_call>> \in
            {"Recon:EC2/Portscan", "Trojan:EC2/DNSDataExfiltration"} \X {2, 5, 8}
                \X ConnectionActions \X ApiCallActions}

NextFindings ==
    \/ \E raw_finding \in ActionFindings : ingest_guardduty(<<raw_finding>>, MaxSharedEvents)
    \/ store_event(TRUE)
    \/ publish_event(TRUE)

SpecFindings == Init /\ [][NextFindings]_vars

(***************************************************************************)
(* Properties.                                                             *)
(***************************************************************************)
Bodies(messages) == {Body(m) : m \in messages}

\* the place of a status in NEW, PROCESSING, PROCESSED, (CORRELATED | ALERTED)
StatusRank(status) ==
    CASE status = "new" -> 0
      [] status = "processing" -> 1
      [] status = "processed" -> 2
      [] status \in {"correlated", "alerted"} -> 3
      [] OTHER -> 0 - 1

\* C1: a message leaves the queue only in the delete step of a tick whose
\* process_message call on that very message returned True; a body that is
\* not JSON, has no event_id, or names an event that is not in the window
\* loaded for the tick is never deleted.
C1_DeleteOnlyAfterSuccess ==
    [][\A m \in queue :
          Body(m) \notin Bodies(queue') =>
              \E p \in Procs :
                  /\ pc[p] = "delete"
                  /\ batch[p][idx[p]] = Body(m)
                  /\ last[p].message = Body(m)
                  /\ last[p].ret
                  /\ m.json
                  /\ m.event_id \notin {None, ""}
                  /\ InSeq(m.event_id, EventIds(window[p]))]_vars

\* C1 witness: the tick has moved on to its second message after the first
\* one named an event missing from the window; the first is still queued.
C1_Witness ==
    \E p \in Procs :
        /\ pc[p] = "process"
        /\ idx[p] = 2
        /\ ~last[p].ret
        /\ last[p].reason = "not_in_window"
        /\ last[p].message \in Bodies(queue)

\* C2 (as claimed): a message leaves the queue only when the item of its
\* event has status PROCESSED in the store.
C2_DeletedOnlyWhenProcessed ==
    [][\A m \in queue :
          Body(m) \notin Bodies(queue') =>
              \E i \in 1..Len(store) :
                  /\ store[i].event_id = m.event_id
                  /\ store[i].status = "processed"]_vars

\* C3: no step moves the status of a stored event backward in
\* NEW, PROCESSING, PROCESSED, (CORRELATED | ALERTED), and no step drops an item.
C3_StatusNeverRegresses ==
    [][\A i \in 1..Len(store) :
          \E j \in 1..Len(store') :
              /\ store'[j].event_id = store[i].event_id
              /\ StatusRank(store'[j].status) >= StatusRank(store[i].status)]_vars

\* C3 witness: an event already PROCESSED by one instance is about to be
\* processed again by another instance that received its message meanwhile.
C3_Witness ==
    \E i \in 1..Len(store) :
        /\ store[i].status = "processed"
        /\ \E p \in Procs :
              /\ pc[p] = "process"
              /\ batch[p][idx[p]].event_id = store[i].event_id
              /\ InSeq(store[i].event_id, EventIds(window[p]))

\* C4 (as claimed): when the poll loop has exited on shutdown no tick is in
\* flight: every message it received was processed, and deleted if the
\* processing succeeded.
C4_TickCompletesBeforeExit ==
    \A p \in Procs : pc[p] = "cancelled" => batch[p] = <<>>

\* the ids of the members of a correlation record whose event_time is the
\* earliest among the members
EarliestIds(record, events) ==
    LET members == {i \in 1..Len(events) : InSeq(events[i].event_id, record.event_ids)}
    IN  {events[i].event_id : i \in
            {i \in members : \A j \in members : events[i].event_time <= events[j].event_time}}

\* C5 (as claimed): every correlation alert dispatched in a tick was
\* dispatched while processing the message of the chronologically first
\* member of that correlation.
C5_AlertForEarliestMember ==
    \A p \in Procs :
        ~CorrelateRaises(window[p]) =>
            \A k \in 1..Len(sent[p]) :
                sent[p][k].kind = "correlation" =>
                    \A i \in 1..Len(correlate_events(window[p])) :
                        correlate_events(window[p])[i].rule = sent[p][k].rule =>
                            sent[p][k].by \in
                                EarliestIds(correlate_events(window[p])[i], window[p])

\* C6: when an alert of a process_message call is not accepted by the alert
\* sink (and the store accepts the update), the call still returns True,
\* the item of the event is PROCESSED with a risk_score, and the loop goes
\* on to delete the message.
C6_AlertFailureDoesNotAbort ==
    [][\A p \in Procs :
          (/\ pc[p] = "process"
           /\ pc'[p] # pc[p] \/ idx'[p] # idx[p]
           /\ last'[p].sns_failed
           /\ ~last'[p].update_failed) =>
              /\ pc'[p] = "delete"
              /\ last'[p].ret
              /\ last'[p].message = batch[p][idx[p]]
              /\ \E i \in 1..Len(store') :
                    /\ store'[i].event_id = batch[p][idx[p]].event_id
                    /\ store'[i].status = "processed"
                    /\ store'[i].risk_score # <<>>]_vars

\* C6 witness: a call whose alert was not accepted has returned True, the
\* item is PROCESSED and the loop waits for delete_message.
C6_Witness ==
    \E p \in Procs :
        /\ pc[p] = "delete"
        /\ last[p].sns_failed
        /\ ~last[p].update_failed
        /\ \E i \in 1..Len(store) :
              /\ store[i].event_id = last[p].message.event_id
              /\ store[i].status = "processed"

\* C7: the step of a background task whose publish call fails leaves the
\* store as it is, with the event of the task in it, and the task ends
\* without an error.
C7_PublishFailureKeepsStore ==
    [][(/\ tasks # <<>>
        /\ Head(tasks).stage = "queue"
        /\ tasks' = Tail(tasks)
        /\ queue' = queue) =>
           /\ store' = store
           /\ InSeq(Head(tasks).event.event_id, EventIds(store'))
           /\ ~task_error']_vars

\* C7 witness: every task has ended, none with an error, and a stored
\* event has no message in the queue: its publish call failed.
C7_Witness ==
    /\ tasks = <<>>
    /\ ~task_error
    /\ \E i \in 1..Len(store) : \A m \in queue : m.event_id # store[i].event_id

\* C8: an ingestion request of N records (CloudTrail or GuardDuty) schedules, in order, one task for
\* every record whose normalisation does not raise, whatever the other
\* records are, and answers events_received = N and events_processed =
\* len(event_ids) = the number of those records.
C8_MalformedRecordDroppedAlone ==
    [][(nextId' # nextId \/ request' # request \/ response' # response) =>
          LET WellFormed(raw) == IF "Type" \in DOMAIN raw THEN ~GuardDutyRaises(raw)
                                 ELSE ~CloudTrailRaises(raw)
              TypeOf(raw) == IF "Type" \in DOMAIN raw THEN raw.Type ELSE raw.eventName
              good == SelectSeq(request', WellFormed)
          IN  /\ response'.events_received = Len(request')
              /\ response'.events_processed = Len(good)
              /\ Len(response'.event_ids) = Len(good)
              /\ Len(tasks') = Len(tasks) + Len(good)
              /\ \A k \in 1..Len(good) :
                    /\ tasks'[Len(tasks) + k].stage = "store"
                    /\ tasks'[Len(tasks) + k].event.event_type = TypeOf(good[k])
                    /\ tasks'[Len(tasks) + k].event.event_id = response'.event_ids[k]]_vars

\* C8 witness: a request of two records, the first of them malformed, was
\* answered with one event processed.
C8_Witness ==
    /\ Len(request) = 2
    /\ "eventName" \in DOMAIN request[1]
    /\ CloudTrailRaises(request[1])
    /\ response.events_received = 2
    /\ response.events_processed = 1
    /\ Len(response.event_ids) = 1

\* C9 (as claimed): a message that names an event of the loaded window is
\* processed even when a rule evaluator raises on an item of the window.
C9_RuleFailureIsContained ==
    \A p \in Procs :
        (last[p].message.json /\ InSeq(last[p].message.event_id, EventIds(window[p])))
            => last[p].ret

\* the lists that hold the same events as seq in some order
PermutationsOf(seq) ==
    {[i \in 1..Len(seq) |-> seq[f[i]]] : f \in Orderings(1..Len(seq))}

\* C10 (as claimed): the record a rule emits for the window has the same
\* correlation_id whatever the order of the events in the window.
C10_CorrelationIdIgnoresOrder ==
    \A p \in Procs :
        ~CorrelateRaises(window[p]) =>
            \A other \in PermutationsOf(window[p]) :
                \A i \in 1..Len(correlate_events(window[p])) :
                    \A j \in 1..Len(correlate_events(other)) :
                        correlate_events(window[p])[i].rule = correlate_events(other)[j].rule
                            => correlate_events(window[p])[i].correlation_id
                                   = correlate_events(other)[j].correlation_id

\* a window without what the processor writes on its items
Unscored(events) ==
    [i \in 1..Len(events) |->
        [events[i] EXCEPT !.status = "new", !.processed_at = <<>>,
                          !.risk_score = <<>>, !.correlation_id = <<>>]]

\* C11: when a message is processed a second time (redelivered to another
\* instance while the first still holds it) against the same window, the
\* second call computes the same risk_score and correlation_id as the first,
\* and the stored event changes in nothing but processed_at.
C11_RedeliveryIsIdempotent ==
    [][\A p, q \in Procs :
          (/\ p # q
           /\ pc[p] = "process" /\ pc'[p] = "delete"
           /\ ~last'[p].update_failed
           /\ pc[q] = "delete"
           /\ last[q].message = batch[p][idx[p]]
           /\ ~last[q].update_failed
           /\ Unscored(window[q]) = Unscored(window[p]))
          => /\ last'[p].update = last[q].update
             /\ \A i \in 1..Len(store) :
                   (/\ store[i].event_id = last[q].update[1].event_id
                    /\ store[i].status = "processed"
                    /\ store[i].risk_score = <<last[q].update[1].risk_score>>)
                   => store' = [store EXCEPT ![i].processed_at = store'[i].processed_at]]_vars

\* C11 witness: two instances have each processed the same message with
\* success against the same window, the second after the first had stored
\* its result.
C11_Witness ==
    \E p, q \in Procs :
        /\ p # q
        /\ pc[p] = "delete" /\ pc[q] = "delete"
        /\ last[p].message = last[q].message
        /\ ~last[p].update_failed /\ ~last[q].update_failed
        /\ Unscored(window[p]) = Unscored(window[q])
        /\ \E i \in 1..Len(window[p]) :
              /\ window[p][i].event_id = last[p].message.event_id
              /\ window[p][i].status = "processed"

SeverityRank(severity) ==
    CASE severity = "critical" -> 4
      [] severity = "high" -> 3
      [] severity = "medium" -> 2
      [] severity = "low" -> 1
      [] OTHER -> 0

\* C12: no step changes, on any stored event, a field other than status,
\* processed_at, risk_score and correlation_id: raw_event, tags, event_time,
\* event_type, event_category, actor, network and mitre_attack stay as
\* normalised, and severity is never lowered.
C12_UpdateTouchesFourFields ==
    [][\A i \in 1..Len(store) :
          \E j \in 1..Len(store') :
              /\ store'[j].event_id = store[i].event_id
              /\ Unscored(<<store'[j]>>) = Unscored(<<store[i]>>)
              /\ SeverityRank(store'[j].severity) >= SeverityRank(store[i].severity)]_vars

\* C12 witness: a stored event has been processed, carries a risk score and
\* a correlation id, and still has its raw record and tags.
C12_Witness ==
    \E i \in 1..Len(store) :
        /\ store[i].status = "processed"
        /\ store[i].processed_at # <<>>
        /\ store[i].risk_score # <<>>
        /\ store[i].correlation_id # <<>>
        /\ store[i].raw_event.eventName = store[i].event_type
        /\ store[i].tags # <<>>

\* the event a successful process_message call of p was about
EventOf(p) == FirstWithId(window[p], last[p].message.event_id)

\* p has processed a message with success and now waits for its deletion
Processed(p) == pc[p] = "delete" /\ last[p].ret /\ last[p].update # <<>>

\* the score of section 4.5 for an event and the correlations of a window
ReferenceScore(event, events) ==
    LET base == CASE event.severity = "critical" -> 80
                  [] event.severity = "high" -> 60
                  [] event.severity = "medium" -> 40
                  [] event.severity = "low" -> 20
                  [] event.severity = "info" -> 10
        records == correlate_events(events)
        containing == Cardinality({i \in 1..Len(records) :
                                     \E k \in 1..Len(records[i].event_ids) :
                                         records[i].event_ids[k] = event.event_id})
        sum == base + 20 * containing
                 + (IF event.mitre_attack # None THEN 10 ELSE 0)
                 + (IF \E k \in 1..Len(event.tags) : event.tags[k] = "root-account"
                    THEN 30 ELSE 0)
    IN  IF sum > 100 THEN 100 ELSE sum

\* C13: the risk_score handed to the store for a processed event is
\* min(100, base(severity) + 20 for each correlation of the evaluation that
\* lists the event + 10 if it has a technique + 30 if it is tagged
\* root-account), an integer in 0..100.
C13_RiskScoreFormula ==
    \A p \in Procs :
        Processed(p)
        => /\ last[p].update[1].risk_score = ReferenceScore(EventOf(p), window[p])
           /\ last[p].update[1].risk_score \in 0..100

\* C13 witness: a HIGH event with a technique, member of one correlation and
\* not tagged root-account, was given the score 90.
C13_Witness ==
    \E p \in Procs :
        /\ Processed(p)
        /\ EventOf(p).severity = "high"
        /\ EventOf(p).mitre_attack # None
        /\ ~InSeq("root-account", EventOf(p).tags)
        /\ Len(correlate_events(window[p])) = 1
        /\ InSeq(EventOf(p).event_id, correlate_events(window[p])[1].event_ids)
        /\ last[p].update[1].risk_score = 90

\* an event alert for the event of p's call is among the alerts dispatched
EventAlertSent(p) ==
    \E k \in 1..Len(sent[p]) :
        sent[p][k].kind = "event" /\ sent[p][k].by = last[p].message.event_id

LoginPlaces(events) == {i \in 1..Len(events) : events[i].event_type = "ConsoleLogin"}

IpBucket(event) ==
    IF event.network.kind = "map" /\ event.network.source_ip # None
    THEN event.network.source_ip ELSE "unknown"

FailedPlaces(events, ip) ==
    {i \in LoginPlaces(events) :
        /\ IpBucket(events[i]) = ip
        /\ \E k \in 1..Len(events[i].tags) :
              events[i].tags[k] \in {"accessdenied", "unauthorizedaccess", "error"}}

\* the buckets with at least 5 failed logins, when there are 5 logins
BruteForceBuckets(events) ==
    {ip \in {IpBucket(events[i]) : i \in LoginPlaces(events)} :
        /\ Cardinality(LoginPlaces(events)) >= 5
        /\ Cardinality(FailedPlaces(events, ip)) >= 5}

\* the place at which a bucket first shows among the logins
FirstLoginOf(events, ip) ==
    CHOOSE i \in LoginPlaces(events) :
        /\ IpBucket(events[i]) = ip
        /\ \A j \in LoginPlaces(events) : IpBucket(events[j]) = ip => i <= j

\* the records of one rule among those of an evaluation
RecordsOf(rule, events) ==
    LET Test(c) == c.rule = rule
    IN  SelectSeq(correlate_events(events), Test)

\* C15: on the window of a processed message, rule R1 emits a brute_force
\* record if and only if there are at least 5 ConsoleLogin events and some
\* source-IP bucket holds at least 5 failed ones; it emits at most one, for
\* the first such bucket, with severity HIGH, the bucket's source_ip and
\* event_count the number of failed logins of the bucket.
C15_BruteForceRule ==
    \A p \in Procs :
        Processed(p)
        => LET events == window[p]
               found == check_brute_force(events)
           IN  /\ Len(found) <= 1
               /\ found = RecordsOf("brute_force", events)
               /\ found # <<>> <=> BruteForceBuckets(events) # {}
               /\ found # <<>>
                  => /\ found[1].rule = "brute_force"
                     /\ found[1].severity = "high"
                     /\ found[1].source_ip \in BruteForceBuckets(events)
                     /\ \A ip \in BruteForceBuckets(events) :
                           FirstLoginOf(events, found[1].source_ip)
                               <= FirstLoginOf(events, ip)
                     /\ found[1].event_count
                           = Cardinality(FailedPlaces(events, found[1].source_ip))
                     /\ found[1].event_ids
                           = [k \in 1..Len(found[1].event_ids) |->
                                 events[CHOOSE i \in FailedPlaces(events, found[1].source_ip) :
                                     Cardinality({j \in FailedPlaces(events, found[1].source_ip) :
                                                     j < i}) = k - 1].event_id]

\* C15 witness: six failed logins from 198.51.100.200 gave one brute_force
\* record with event_count 6, while another address also had five.
C15_Witness ==
    \E p \in Procs :
        /\ Processed(p)
        /\ Len(check_brute_force(window[p])) = 1
        /\ check_brute_force(window[p])[1].source_ip = "198.51.100.200"
        /\ check_brute_force(window[p])[1].event_count = 6
        /\ Cardinality(BruteForceBuckets(window[p])) = 2

\* the actor bucket of an event: user_name, else the ARN, else "unknown"
ActorBucket(event) ==
    IF event.actor.kind = "map" /\ event.actor.user_name \notin {None, ""}
    THEN event.actor.user_name
    ELSE IF event.actor.kind = "map" /\ event.actor.arn \notin {None, ""}
    THEN event.actor.arn
    ELSE "unknown"

\* event i comes before event j in event_time order (events of equal time
\* keep the order of the list)
TimeBefore(events, i, j) ==
    \/ events[i].event_time < events[j].event_time
    \/ events[i].event_time = events[j].event_time /\ i < j

\* the places of an actor's successful logins, and of the follow-up events
\* that come after one of them
GoodLoginPlaces(events, actor) ==
    {i \in 1..Len(events) :
        /\ ActorBucket(events[i]) = actor
        /\ events[i].event_type = "ConsoleLogin"
        /\ \A k \in 1..Len(events[i].tags) : events[i].tags[k] # "error"}

FollowUpPlaces(events, actor) ==
    {j \in 1..Len(events) :
        /\ ActorBucket(events[j]) = actor
        /\ events[j].event_type \in {"CreateAccessKey", "CreateUser", "AttachUserPolicy",
                                      "AttachRolePolicy"}
        /\ \E i \in GoodLoginPlaces(events, actor) : TimeBefore(events, i, j)}

\* the event types of the follow-ups in event_time order
FollowUpTypes(events, actor) ==
    LET places == FollowUpPlaces(events, actor)
    IN  [k \in 1..Cardinality(places) |->
            events[CHOOSE j \in places :
                      Cardinality({i \in places : TimeBefore(events, i, j)}) = k - 1].event_type]

\* C16: on the window of a processed message, rule R2 emits a
\* privilege_escalation record if and only if some actor bucket has a
\* successful ConsoleLogin followed in event_time order by a CreateAccessKey,
\* CreateUser, AttachUserPolicy or AttachRolePolicy event; it emits at most
\* one, with severity CRITICAL and the sequence ConsoleLogin then the types
\* of the follow-ups in order.
C16_PrivilegeEscalationRule ==
    \A p \in Procs :
        Processed(p)
        => LET events == window[p]
               found == check_privilege_escalation(events)
           IN  /\ Len(found) <= 1
               /\ found = RecordsOf("privilege_escalation", events)
               /\ found # <<>>
                  <=> \E i \in 1..Len(events) :
                         FollowUpPlaces(events, ActorBucket(events[i])) # {}
               /\ found # <<>>
                  => /\ found[1].rule = "privilege_escalation"
                     /\ found[1].severity = "critical"
                     /\ FollowUpPlaces(events, found[1].actor) # {}
                     /\ found[1].sequence
                           = <<"ConsoleLogin">> \o FollowUpTypes(events, found[1].actor)

\* C16 witness: a CreateAccessKey stored before the earlier successful
\* login of the same user gave the sequence ConsoleLogin, CreateAccessKey.
C16_Witness ==
    \E p \in Procs :
        /\ Processed(p)
        /\ Len(window[p]) >= 2
        /\ window[p][1].event_type = "CreateAccessKey"
        /\ Len(check_privilege_escalation(window[p])) = 1
        /\ check_privilege_escalation(window[p])[1].sequence
              = <<"ConsoleLogin", "CreateAccessKey">>

\* the places of the StopLogging, DeleteTrail and UpdateTrail events
TrailChangePlaces(events) ==
    {i \in 1..Len(events) :
        events[i].event_type \in {"StopLogging", "DeleteTrail", "UpdateTrail"}}

\* C17: on the window of a processed message, rule R3 emits exactly one
\* logging_tampering record, with severity CRITICAL, when the window holds a
\* StopLogging, DeleteTrail or UpdateTrail event, and none otherwise; its
\* event_ids are those of all the matching events and event_count is their
\* number.
C17_LoggingTamperingRule ==
    \A p \in Procs :
        Processed(p)
        => LET events == window[p]
               found == check_logging_tampering(events)
               places == TrailChangePlaces(events)
           IN  /\ found = RecordsOf("logging_tampering", events)
               /\ Len(found) = (IF places # {} THEN 1 ELSE 0)
               /\ found # <<>>
                  => /\ found[1].rule = "logging_tampering"
                     /\ found[1].severity = "critical"
                     /\ found[1].event_count = Cardinality(places)
                     /\ Len(found[1].event_ids) = Cardinality(places)
                     /\ \A k \in 1..Len(found[1].event_ids) :
                           found[1].event_ids[k]
                               = events[CHOOSE i \in places :
                                     Cardinality({j \in places : j < i}) = k - 1].event_id

\* C17 witness: a window holding a single StopLogging event gave a
\* logging_tampering record with event_count 1.
C17_Witness ==
    \E p \in Procs :
        /\ Processed(p)
        /\ Len(window[p]) = 1
        /\ window[p][1].event_type = "StopLogging"
        /\ Len(check_logging_tampering(window[p])) = 1
        /\ check_logging_tampering(window[p])[1].event_count = 1
        /\ check_logging_tampering(window[p])[1].severity = "critical"

\* s begins with the characters of prefix
BeginsWith(s, prefix) ==
    /\ Len(Chars(prefix)) <= Len(Chars(s))
    /\ \A k \in 1..Len(Chars(prefix)) : Chars(s)[k] = Chars(prefix)[k]

\* the places of the events of one source-IP bucket whose event_type begins
\* with List, Describe or Get
DiscoveryPlaces(events, ip) ==
    {i \in 1..Len(events) :
        /\ IpBucket(events[i]) = ip
        /\ \/ BeginsWith(events[i].event_type, "List")
           \/ BeginsWith(events[i].event_type, "Describe")
           \/ BeginsWith(events[i].event_type, "Get")}

\* C18: on the window of a processed message, rule R4 emits a
\* reconnaissance record, with severity MEDIUM, if and only if some
\* source-IP bucket holds at least 20 events whose event_type begins with
\* List, Describe or Get; it emits at most one, with at most 20 event_ids
\* and at most 10 event_types.
C18_ReconnaissanceRule ==
    \A p \in Procs :
        Processed(p)
        => LET events == window[p]
               found == check_reconnaissance(events)
           IN  /\ Len(found) <= 1
               /\ found = RecordsOf("reconnaissance", events)
               /\ found # <<>>
                  <=> \E i \in 1..Len(events) :
                         Cardinality(DiscoveryPlaces(events, IpBucket(events[i]))) >= 20
               /\ found # <<>>
                  => /\ found[1].rule = "reconnaissance"
                     /\ found[1].severity = "medium"
                     /\ Cardinality(DiscoveryPlaces(events, found[1].source_ip)) >= 20
                     /\ Len(found[1].event_ids) <= 20
                     /\ Cardinality(found[1].event_types) <= 10

\* C18 witness: a bucket of more than 20 discovery calls of more than 10
\* kinds gave a record with 20 event_ids and 10 event_types.
C18_Witness ==
    \E p \in Procs :
        /\ Processed(p)
        /\ Len(check_reconnaissance(window[p])) = 1
        /\ check_reconnaissance(window[p])[1].event_count > 20
        /\ Len(check_reconnaissance(window[p])[1].event_ids) = 20
        /\ Cardinality(check_reconnaissance(window[p])[1].event_types) = 10
        /\ Cardinality({window[p][i].event_type : i \in 1..Len(window[p])}) > 11

\* the normalised events scheduled or stored by the ingest service
Normalised ==
    {tasks[i].event : i \in 1..Len(tasks)} \cup {store[i] : i \in 1..Len(store)}

\* s, with the case of its letters ignored, contains a and then b
HasThen(s, a, b) ==
    LET cs == LowerChars(Chars(s))
    IN  \E i \in 1..Len(cs) :
            \E j \in 1..Len(cs) :
                /\ i + Len(Chars(a)) <= j
                /\ j + Len(Chars(b)) - 1 <= Len(cs)
                /\ \A k \in 1..Len(Chars(a)) : cs[i + k - 1] = Chars(a)[k]
                /\ \A k \in 1..Len(Chars(b)) : cs[j + k - 1] = Chars(b)[k]

Has(s, a) ==
    LET cs == LowerChars(Chars(s))
    IN  \E i \in 1..(Len(cs) - Len(Chars(a)) + 1) :
            \A k \in 1..Len(Chars(a)) : cs[i + k - 1] = Chars(a)[k]

\* the event names that match .*Delete.*Trail.*, .*Stop.*Logging.*,
\* .*Disable.* or .*Root.* without regard to case
PatternNames ==
    {name \in Names :
        \/ HasThen(name, "delete", "trail")
        \/ HasThen(name, "stop", "logging")
        \/ Has(name, "disable")
        \/ Has(name, "root")}

\* the event names that begin with List, Describe or Get
LookupNames ==
    {name \in Names :
        \/ BeginsWith(name, "List")
        \/ BeginsWith(name, "Describe")
        \/ BeginsWith(name, "Get")}

\* the rules of the severity list that a record matches, by their rank
SeverityRules(raw) ==
    {n \in 1..6 :
        CASE n = 1 -> raw.userIdentity.kind = "map" /\ raw.userIdentity.type = "Root"
          [] n = 2 -> raw.eventName \in PatternNames
          [] n = 3 -> raw.errorCode \in {"AccessDenied", "UnauthorizedAccess",
                                         "InvalidClientTokenId"}
          [] n = 4 -> raw.eventName \in
                         {"ConsoleLogin", "CreateUser", "CreateAccessKey", "DeleteTrail",
                          "StopLogging", "PutBucketPolicy", "PutBucketAcl",
                          "AuthorizeSecurityGroupIngress", "CreateSecurityGroup",
                          "ModifyInstanceAttribute", "RunInstances"}
          [] n = 5 -> raw.eventName \in LookupNames
          [] n = 6 -> TRUE}

SeverityOfRule(n) ==
    CASE n \in {1, 2} -> "critical"
      [] n \in {3, 4} -> "high"
      [] n = 5 -> "low"
      [] n = 6 -> "info"

NetworkNames ==
    {name \in Names :
        \E part \in {"SecurityGroup", "Vpc", "Subnet", "Route", "NetworkAcl"} :
            \E i \in 1..(Len(Chars(name)) - Len(Chars(part)) + 1) :
                \A k \in 1..Len(Chars(part)) : Chars(name)[i + k - 1] = Chars(part)[k]}

\* the event names that begin with Create, Delete, Modify, Update or
\* Terminate
ModifyingNames ==
    {name \in Names :
        \E prefix \in {"Create", "Delete", "Modify", "Update", "Terminate"} :
            BeginsWith(name, prefix)}

\* the rules of the category list that a record matches, by their rank
CategoryRules(raw) ==
    {n \in 1..8 :
        CASE n = 1 -> raw.eventName \in {"ConsoleLogin", "GetFederationToken",
                                         "GetSessionToken", "AssumeRole",
                                         "AssumeRoleWithSAML", "AssumeRoleWithWebIdentity"}
          [] n = 2 -> raw.eventSource = "iam.amazonaws.com"
          [] n = 3 -> raw.eventSource = "ec2.amazonaws.com" /\ raw.eventName \in NetworkNames
          [] n = 4 -> \/ raw.eventSource = "s3.amazonaws.com"
                      \/ raw.eventName \in {"GetObject", "PutObject", "DeleteObject"}
          [] n = 5 -> raw.eventSource \in {"cloudtrail.amazonaws.com", "logs.amazonaws.com"}
          [] n = 6 -> raw.eventName \in ModifyingNames
          [] n = 7 -> raw.eventName \in LookupNames
          [] n = 8 -> TRUE}

CategoryOfRule(n) ==
    CASE n = 1 -> "authentication"
      [] n = 2 -> "identity_management"
      [] n = 3 -> "network_security"
      [] n = 4 -> "data_access"
      [] n = 5 -> "logging"
      [] n = 6 -> "resource_modification"
      [] n = 7 -> "discovery"
      [] n = 8 -> "other"

\* C20 (as claimed): the event_category of a normalised CloudTrail event is
\* that of the first rule its record matches in the order authentication,
\* identity_management (eventSource iam.amazonaws.com only),
\* network_security, data_access, logging, resource_modification,
\* discovery, otherwise other.
C20_CategoryFirstMatch ==
    \A event \in Normalised :
        event.source = "cloudtrail"
        => event.event_category
             = CategoryOfRule(CHOOSE n \in CategoryRules(event.raw_event) :
                                 \A m \in CategoryRules(event.raw_event) : n <= m)

\* the records an evaluation of a window emits, each with the event that is
\* its first listed member
RecordsWithFirst(events) ==
    {[record |-> correlate_events(events)[i],
      first |-> FirstWithId(events, correlate_events(events)[i].event_ids[1])] :
        i \in 1..Len(correlate_events(events))}

\* the records emitted for the tables of the scenarios
ScenarioRecords == UNION {RecordsWithFirst(items) : items \in ScenarioStores \ {<<>>}}

\* C21 (as claimed): two emitted records of the same rule whose first
\* members have the same event_type but different source addresses carry
\* different correlation_ids.
C21_CorrelationIdTellsAddressesApart ==
    \A p \in Procs :
        pc[p] = "delete"
        => \A mine \in RecordsWithFirst(window[p]), other \in ScenarioRecords :
               /\ mine.record.rule = other.record.rule
               /\ mine.first.event_type = other.first.event_type
               /\ SourceIpOf(mine.first) # SourceIpOf(other.first)
               => mine.record.correlation_id # other.record.correlation_id

\* the event_time of the listed members of a record, in the listed order
MemberTimes(record, events) ==
    [i \in 1..Len(record.event_ids) |-> FirstWithId(events, record.event_ids[i]).event_time]

\* C22 (as claimed): the event_ids of every emitted correlation record are
\* listed in non-decreasing event_time order; in a privilege_escalation
\* record no listed follow-up is earlier than the listed login.
C22_MembersAreChronological ==
    \A p \in Procs :
        pc[p] = "delete"
        => \A i \in 1..Len(correlate_events(window[p])) :
               LET times == MemberTimes(correlate_events(window[p])[i], window[p])
               IN  \A j, k \in 1..Len(times) : j < k => times[j] <= times[k]

C24_PollLoopSurvivesErrors ==
    /\ [][/\ pc["p1"] = "poll" /\ pc'["p1"] # "poll"
             => pc'["p1"] \in {"process", "sleep", "cancelled"}
          /\ pc["p1"] = "sleep" /\ pc'["p1"] # "sleep"
             => pc'["p1"] \in {"poll", "cancelled"}]_vars
    /\ [](is_processing["p1"] => <>(pc["p1"] = "poll" \/ ~is_processing["p1"]))

\* the loop is in its back-off though no event was ever stored: the call
\* that failed is receive_message
C24_Witness ==
    /\ pc["p1"] = "sleep"
    /\ is_processing["p1"]
    /\ store = <<>>
    /\ nextId = 0

\* C25 (as claimed): the tags of an event built by either normaliser list
\* no entry twice.
C25_TagsHaveNoDuplicates ==
    \A event \in Normalised :
        event.source \in {"cloudtrail", "guardduty"}
        => \A i, j \in 1..Len(event.tags) : i # j => event.tags[i] # event.tags[j]

\* C26 (as claimed): the network of an event built from a finding with a
\* NetworkConnectionAction has that action's remote address as source_ip,
\* with its remote port, local port and protocol, whether or not the
\* finding also has an AwsApiCallAction; the address and user agent of the
\* AwsApiCallAction are taken only when there is no NetworkConnectionAction.
C26_ConnectionActionComesFirst ==
    \A event \in Normalised :
        event.source = "guardduty"
        => LET connection == event.raw_event.Service.NetworkConnectionAction
               api_call == event.raw_event.Service.AwsApiCallAction
           IN  /\ connection # <<>>
                  => /\ event.network.source_ip = connection[1].IpAddressV4
                     /\ event.network.source_port = connection[1].RemotePort
                     /\ event.network.destination_port = connection[1].LocalPort
                     /\ event.network.protocol = connection[1].Protocol
                     /\ event.network.user_agent = None
               /\ connection = <<>> /\ api_call # <<>>
                  => /\ event.network.source_ip = api_call[1].IpAddressV4
                     /\ event.network.user_agent = api_call[1].UserAgent

\* C27 (as claimed): an event alert is dispatched for every processed event
\* that is listed in a correlation of its evaluation, whatever its severity
\* and its risk score.
C27_CorrelatedEventIsAlerted ==
    \A p \in Procs :
        /\ Processed(p)
        /\ \E i \in 1..Len(correlate_events(window[p])) :
              InSeq(last[p].message.event_id, correlate_events(window[p])[i].event_ids)
        => EventAlertSent(p)

\* C28: every message in the queue names an event that is in the table: the
\* ingest service publishes an event_id only after the put_item of that
\* event returned, and publishes nothing for an event whose put_item failed.
C28_PublishedOnlyAfterStored ==
    /\ \A m \in queue : \E i \in 1..Len(store) : store[i].event_id = m.event_id
    /\ \A k \in 1..Len(tasks) :
          tasks[k].stage = "queue"
          => \E i \in 1..Len(store) : store[i].event_id = tasks[k].event.event_id

\* of two events, one was stored and published and the write of the other
\* failed, ending its task with nothing published
C28_Witness ==
    /\ nextId = 2
    /\ tasks = <<>>
    /\ task_error
    /\ Len(store) = 1
    /\ Cardinality(queue) = 1

\* the queue holds a message for the event
Queued(event_id) == \E m \in queue : m.json /\ m.event_id = event_id

\* the table holds the event with this status
Stored(event_id, statuses) ==
    \E i \in 1..Len(store) : store[i].event_id = event_id /\ store[i].status \in statuses

\* C29 (as claimed): a queued message whose event is in the table is in the
\* end processed and deleted: its event is PROCESSED and the message is no
\* longer in the queue, also when the event_time of the event is older than
\* the correlation window.
C29_QueuedEventIsProcessed ==
    \A n \in 1..MaxEvents :
        (Queued(IdOf(n)) /\ Stored(IdOf(n), {"new", "processing", "processed"}))
            ~> (~Queued(IdOf(n)) /\ Stored(IdOf(n), {"processed"}))

\* a correlation alert of the rule is among the alerts of p's tick
CorrelationAlertSent(p, rule) ==
    \E k \in 1..Len(sent[p]) : sent[p][k].kind = "correlation" /\ sent[p][k].rule = rule

\* a correlation alert may have been dispatched before p's last call: when
\* every call succeeds, the event a correlation alert is dispatched for is
\* stored with a correlation_id by the same process_message call
MayHaveAlertedBefore(p) ==
    \E i \in 1..Len(store) :
        /\ store[i].event_id # last[p].message.event_id
        /\ store[i].correlation_id # <<>>

\* the first listed member of the record is another event, which was
\* processed and whose message is no longer in the queue
FirstMemberIsDone(p, record) ==
    /\ record.event_ids[1] # last[p].message.event_id
    /\ Stored(record.event_ids[1], {"processed"})
    /\ ~Queued(record.event_ids[1])

\* C30 (as claimed), in the case the claim singles out: when a message is
\* processed for an event listed in a correlation of its evaluation, and the
\* first listed member was processed and acknowledged before, a correlation
\* alert of that correlation is dispatched in the same tick or was
\* dispatched in an earlier tick.
C30_CorrelationIsAlerted ==
    \A p \in Procs :
        Processed(p)
        => \A i \in 1..Len(correlate_events(window[p])) :
              /\ InSeq(last[p].message.event_id, correlate_events(window[p])[i].event_ids)
              /\ FirstMemberIsDone(p, correlate_events(window[p])[i])
              => \/ CorrelationAlertSent(p, correlate_events(window[p])[i].rule)
                 \/ MayHaveAlertedBefore(p)

TypeOK ==
    /\ now \in Int
    /\ nextId \in Nat
    /\ \A p \in Procs : pc[p] \in {"poll", "process", "delete", "sleep", "cancelled"}

====
